---------------------------- MODULE Spec2Model ----------------------------
(***************************************************************************)
(* The synthetic restaurant dataset generator                              *)
(* (Database_query/mongodb_concepts/create_sample_dataset.py) as a state   *)
(* machine: main() clamps the command line counts into the module globals, *)
(* generate_dataset() builds customers, menu items, orders, delivery       *)
(* records, audit logs and users from one seeded random stream and the     *)
(* wall clock, write_json_files() emits the six collections and, with      *)
(* --insert, insert_into_mongo() replaces the six collections of the       *)
(* document store. Four more programs of the repository have sections and *)
(* specifications of their own:                                            *)
(*   SpecQuery     the mongodb_query tool of the MCP server                *)
(*                 (main_dir/mcp_server/tools/mongodb_query.py)            *)
(*   SpecLauncher  the launcher of the two servers (main.py)               *)
(*   SpecClient    MongoDBClient (main_dir/mcp_server/utils/db_client.py)  *)
(*   SpecAgent     MongoDBAnalyticsAgent                                   *)
(*                 (main_dir/api_server/agents/langgraph_agent.py)         *)
(* The generator itself runs under Spec, SpecRerun, SpecCalls, SpecInsert  *)
(* and SpecPrices, which differ in the command lines and in what follows   *)
(* a finished run.                                                         *)
(*                                                                         *)
(* Representation.                                                         *)
(*   money      integer cents (every stored amount is round(x, 2))         *)
(*   time       integer clock ticks, TicksPerSecond of them in a second    *)
(*   identifier <<prefix, number>> for f"{prefix}_{number:0Nd}"            *)
(*   random     the standard library generator is replaced by a small      *)
(*              multiplicative congruential generator: like the library's, *)
(*              its stream is a function of the seed and of the number of  *)
(*              draws made so far, and of nothing else                     *)
(* Fields that no draw after them depends on and that carry only free text *)
(* (names, e-mail, phone, description, cost, allergens, fees) are left out *)
(* of the records; the draws that produce them are still consumed.         *)
(***************************************************************************)
EXTENDS Integers, Sequences, FiniteSets, TLC

VARIABLES
    pc,                 \* position of the process in main()
    args,               \* parse_args(): seed, orders, customers, menu_items
    RANDOM_SEED,        \* module globals, rewritten by main()
    ORDER_COUNT,
    CUSTOMER_COUNT,
    MENU_ITEM_COUNT,
    rng,                \* state of the random stream
    now,                \* the wall clock, read by datetime.utcnow()
    ticks,              \* how often the clock has advanced (bounded)
    fpTies,             \* how binary floating point resolved each decimal tie
    customers,          \* locals of generate_dataset()
    menu_items,
    menu_index,
    customer_stats,
    orders,
    delivery_records,
    audit_logs,
    users,
    dataset,            \* the value generate_dataset() returned
    files,              \* data/<collection>.json on disk
    prevFiles,          \* the files as the previous run of the command left them
    runs,               \* how many times the command has been started
    calls,              \* the call of generate_dataset the process is at
    error,              \* the exception that ended the process, or NoError
    env,                \* the environment after load_dotenv()
    pymongo,            \* whether pymongo could be imported
    client,             \* the MongoClient of insert_into_mongo
    database_name,      \* the database insert_into_mongo works on
    store,              \* that database: its collections and their documents
    cursor,             \* the collection the loop of insert_into_mongo is at
    storeOps,           \* the operations attempted on the store, in order
    request,            \* mongodb_query: the arguments of the call
    dbUp,               \* mongodb_query: whether the database can be reached
    response,           \* mongodb_query: the value returned, or NoResponse
    launcher,           \* main.py: the position of main()
    mcp_process,        \* main.py: the child started by start_mcp_server()
    api_process,        \* main.py: the child started by start_fastapi_server()
    launchLog,          \* main.py: the Popen and terminate calls, in order
    exit_status,        \* main.py: how asyncio.run(main()) ended
    sleeps,             \* main.py: iterations of the keep-running loop (bounded)
    _client,            \* MongoDBClient: the connection held, or None
    _db,                \* MongoDBClient: the database handle held, or None
    connections,        \* MongoDBClient: every MongoClient created so far
    uri_set,            \* MongoDBClient: whether a connection string is configured
    lastCall,           \* MongoDBClient: the last call and what it returned
    agent,              \* MongoDBAnalyticsAgent: self.agent, or None
    agentCall,          \* MongoDBAnalyticsAgent: the arguments of the last call
    agentResult         \* MongoDBAnalyticsAgent: what the last call returned

vars == <<pc, args, RANDOM_SEED, ORDER_COUNT, CUSTOMER_COUNT, MENU_ITEM_COUNT,
          rng, now, ticks, fpTies, customers, menu_items, menu_index,
          customer_stats, orders, delivery_records, audit_logs, users,
          dataset, files, prevFiles, runs, calls, error,
          env, pymongo, client, database_name, store, cursor, storeOps,
          request, dbUp, response,
          launcher, mcp_process, api_process, launchLog, exit_status, sleeps,
          _client, _db, connections, uri_set, lastCall,
          agent, agentCall, agentResult>>

\* the state of the dataset generator
generatorVars == <<pc, args, RANDOM_SEED, ORDER_COUNT, CUSTOMER_COUNT,
                   MENU_ITEM_COUNT, rng, now, ticks, fpTies, customers,
                   menu_items, menu_index, customer_stats, orders,
                   delivery_records, audit_logs, users, dataset, files,
                   prevFiles, runs, calls, error>>

\* the state of the upsert into the document store
insertVars == <<env, pymongo, client, database_name, store, cursor, storeOps>>

\* the state of a call of the mongodb_query tool
queryVars == <<request, dbUp, response>>

\* the state of the launcher, main.py
launcherVars == <<launcher, mcp_process, api_process, launchLog, exit_status, sleeps>>

\* the state of the MongoDBClient object
clientVars == <<_client, _db, connections, uri_set, lastCall>>

\* the state of the MongoDBAnalyticsAgent object
agentVars == <<agent, agentCall, agentResult>>

---------------------------------------------------------------------------
(* Bounds of the model *)

MaxOrders == 2          \* largest --orders value tried
MaxCustomers == 2       \* largest --customers value tried
MaxMenuItems == 20      \* largest --menu-items value tried
MaxSeed == 20           \* seeds 1..MaxSeed are tried
MaxRuns == 2            \* the command is started at most this often
MaxTicks == 1           \* the clock advances at most this often
MaxCalls == 2           \* generate_dataset is called at most this often by a process
MaxInsertSeed == 2      \* seeds 1..MaxInsertSeed are tried with --insert
MaxInsertOrders == 2    \* largest --orders value tried with --insert
MaxStored == 502        \* most documents a queried collection holds
MaxSleeps == 10         \* the launcher's keep-running loop is followed this far
MaxConnections == 3     \* a MongoDBClient creates at most this many MongoClients
TicksPerSecond == 2     \* resolution of the clock
RandomResolution == 100 \* random.random() delivers u / RandomResolution
MinPriceSeed == 2742    \* seeds MinPriceSeed..MaxPriceSeed are tried with the
MaxPriceSeed == 2745    \* long menu
PriceMenuItems == 40    \* the --menu-items value of the long menu
PriceOrders == 34       \* the --orders value tried with the long menu

---------------------------------------------------------------------------
(* Program constants *)

DEFAULT_RANDOM_SEED == 8675309
DEFAULT_CUSTOMER_COUNT == 60
DEFAULT_MENU_ITEM_COUNT == 24
DEFAULT_ORDER_COUNT == 480
USER_COUNT == 12

DEFAULT_DB_NAME == "restaurant_management"

None == -1              \* Python's None where a date or an address is expected
NoError == "none"

ORDER_TYPES == <<"dine_in", "delivery", "takeout">>
ORDER_TYPE_WEIGHTS == <<45, 40, 15>>
ORDER_STATUSES == <<"completed", "pending", "cancelled", "refunded">>
ORDER_STATUS_WEIGHTS == <<75, 10, 10, 5>>
DISCOUNT_RATES == <<0, 5, 10>>
VARIANT_SUFFIXES == <<"Chef Special", "XL", "Seasonal">>

\* MENU_CATALOG flattened in the iteration order of the dict: name, category,
\* price in cents.
MENU_CATALOG ==
    << <<"Garlic Bread", "Starters", 650>>,
       <<"Bruschetta", "Starters", 720>>,
       <<"Stuffed Mushrooms", "Starters", 800>>,
       <<"Loaded Nachos", "Starters", 950>>,
       <<"Margherita Pizza", "Mains", 1400>>,
       <<"BBQ Chicken Pizza", "Mains", 1650>>,
       <<"Penne Alfredo", "Mains", 1500>>,
       <<"Veggie Burger", "Mains", 1250>>,
       <<"Grilled Salmon", "Mains", 2100>>,
       <<"Ribeye Steak", "Mains", 2800>>,
       <<"Tiramisu", "Desserts", 700>>,
       <<"Cheesecake", "Desserts", 750>>,
       <<"Chocolate Lava Cake", "Desserts", 850>>,
       <<"Fresh Lime Soda", "Beverages", 450>>,
       <<"Iced Tea", "Beverages", 400>>,
       <<"Craft Coffee", "Beverages", 550>>,
       <<"Orange Juice", "Beverages", 480>>,
       <<"Mocktail", "Beverages", 650>> >>

CatalogSize == Len(MENU_CATALOG)

COLLECTIONS ==
    <<"customers", "menu_items", "orders", "delivery_details", "users", "audit_logs">>

---------------------------------------------------------------------------
(* Time *)

Second == TicksPerSecond
Minute == 60 * Second
Hour == 60 * Minute
Day == 24 * Hour

\* The instant the clock shows when the model starts: late enough for every
\* date the generator computes backwards from it (up to 720 days).
StartClock == 800 * Day

\* timedelta taking the minutes for seconds
timedelta_minutes_as_seconds(d, h, m) == d * Day + h * Hour + m * Second

\* timedelta(days=d, hours=h, minutes=m) in ticks
timedelta(d, h, m) == d * Day + h * Hour + m * Minute

\* dt.strftime("%Y-%m-%dT%H:%M:%SZ"): the instant cut to whole seconds
iso(dt) == dt - (dt % Second)

\* dt.strftime("%Y-%m-%d"): the number of the calendar day
strftime_date(dt) == dt \div Day

---------------------------------------------------------------------------
(* The random stream *)

\* random.seed(seed): the state a seed starts the stream in (never 0)
SeedState(seed) == ((seed * 7919 + 104729) % 65536) + 1

\* one step of the generator
NextRandom(s) == (75 * s) % 65537

\* the state after n draws from state s; the n-th draw's value is read off it
RECURSIVE Draw(_, _)
Draw(s, n) == IF n = 0 THEN s ELSE Draw(NextRandom(s), n - 1)

\* random.randint(a, b), random.choice(seq), random.random() as read off the
\* state d that the draw left
randint(d, a, b) == a + (d % (b - a + 1))
choice(d, seq) == seq[1 + (d % Len(seq))]
random(d) == d % RandomResolution

\* random.choices(population, weights=w, k=1)[0] with percent weights: the
\* first entry whose cumulative weight exceeds random() * total
RECURSIVE CumWeight(_, _)
CumWeight(w, i) == IF i = 0 THEN 0 ELSE w[i] + CumWeight(w, i - 1)

choices(d, population, w) ==
    LET idx == CHOOSE i \in 1..Len(w) :
                   /\ random(d) * CumWeight(w, Len(w)) < CumWeight(w, i) * RandomResolution
                   /\ \A j \in 1..(i - 1) :
                          random(d) * CumWeight(w, Len(w)) >= CumWeight(w, j) * RandomResolution
    IN population[idx]

\* random.sample(population, k) for k <= 5: the library takes the pool
\* algorithm for a population of at most SAMPLE_SETSIZE entries and the
\* selection-set algorithm for a larger one.
SAMPLE_SETSIZE == 21

\* the pool algorithm: the chosen positions, in order
RECURSIVE SamplePool(_, _, _, _)
SamplePool(s, pool, k, acc) ==
    IF k = 0 THEN acc
    ELSE LET d == NextRandom(s)
             n == Len(pool)
             j == 1 + (d % n)
             moved == [pool EXCEPT ![j] = pool[n]]
         IN SamplePool(d, SubSeq(moved, 1, n - 1), k - 1, Append(acc, pool[j]))

\* the positions 1..n of a list of n entries, as a list
RECURSIVE Indices(_)
Indices(n) == IF n = 0 THEN <<>> ELSE Append(Indices(n - 1), n)

\* the selection-set algorithm: a position drawn before is drawn again. The
\* chosen positions, in order, and the state after the last draw.
RECURSIVE SampleSelected(_, _, _, _)
SampleSelected(s, n, k, acc) ==
    IF k = 0 THEN [val |-> acc, rng |-> s]
    ELSE LET d == NextRandom(s)
             j == 1 + (d % n)
         IN IF \E i \in 1..Len(acc) : acc[i] = j
            THEN SampleSelected(d, n, k, acc)
            ELSE SampleSelected(d, n, k - 1, Append(acc, j))

sample(s, n, k) ==
    IF n <= SAMPLE_SETSIZE THEN SamplePool(s, Indices(n), k, <<>>)
    ELSE SampleSelected(s, n, k, <<>>).val

\* the state of the stream after random.sample
sample_rng(s, n, k) ==
    IF n <= SAMPLE_SETSIZE THEN Draw(s, k) ELSE SampleSelected(s, n, k, <<>>).rng

---------------------------------------------------------------------------
(* Formatting helpers *)

\* f"{prefix}_{number:0Nd}": zero padding never cuts a digit, so the string
\* determines the prefix and the number
Id(prefix, number) == <<prefix, number>>

\* str.lower() and str.title() on the category names of the catalog
lower(category) ==
    CASE category = "Starters" -> "starters"
      [] category = "Mains" -> "mains"
      [] category = "Desserts" -> "desserts"
      [] category = "Beverages" -> "beverages"
      [] OTHER -> category

title(category) ==
    CASE category = "starters" -> "Starters"
      [] category = "mains" -> "Mains"
      [] category = "desserts" -> "Desserts"
      [] category = "beverages" -> "Beverages"
      [] OTHER -> category

\* round(n / d, 2 decimals) of an amount of n / d cents, d > 0: to the nearest
\* cent; on a decimal tie the binary value decides, which `up` stands for
Round2(n, d, up) ==
    LET q == n \div d
        r == n % d
    IN IF 2 * r > d \/ (2 * r = d /\ up) THEN q + 1 ELSE q

IsTie(n, d) == 2 * (n % d) = d

Max(a, b) == IF a >= b THEN a ELSE b

---------------------------------------------------------------------------
(* Entity builders. Each takes the state s of the random stream before its  *)
(* first draw and returns its value with the state after its last draw.     *)

\* make_customer: draws 1-2 name, 3 segment, 4 registration, 5-6 e-mail,
\* 7-8 phone
make_customer(customer_id, s, clock) ==
    [val |-> [_id |-> Id("cust", customer_id),
              customer_id |-> Id("cust", customer_id),
              registration_date |->
                  strftime_date(clock - timedelta(randint(Draw(s, 4), 40, 380), 0, 0)),
              total_spent |-> 0,
              orders_count |-> 0,
              loyalty_points |-> 0,
              last_order_date |-> None],
     rng |-> Draw(s, 8)]

\* [make_customer(i + 1) for i in range(CUSTOMER_COUNT)], from customer i on
RECURSIVE make_customers(_, _, _, _, _)
make_customers(i, count, s, clock, acc) ==
    IF i > count THEN [val |-> acc, rng |-> s]
    ELSE LET c == make_customer(i, s, clock)
         IN make_customers(i + 1, count, c.rng, clock, Append(acc, c.val))

\* make_menu_item: draw 1 availability, 2 the number k of allergens, then k
\* draws of random.sample, then preparation_time
make_menu_item(item_id, name, category, price, s) ==
    [val |-> [_id |-> Id("menu", item_id),
              item_id |-> Id("menu", item_id),
              name |-> name,
              category |-> lower(category),
              price |-> price],
     rng |-> Draw(s, 3 + randint(Draw(s, 2), 0, 2))]

\* the loop of build_menu_items over MENU_CATALOG, from entry i on
RECURSIVE catalog_items(_, _, _)
catalog_items(i, s, items) ==
    IF i > CatalogSize THEN [val |-> items, rng |-> s]
    ELSE LET e == MENU_CATALOG[i]
             m == make_menu_item(i, <<e[1]>>, e[2], e[3], s)
         IN catalog_items(i + 1, m.rng, Append(items, m.val))

\* extend_menu stopping one item late
RECURSIVE extend_menu_one_more(_, _, _)
extend_menu_one_more(items, s, count) ==
    IF Len(items) > count THEN [val |-> items, rng |-> s]
    ELSE LET base == choice(Draw(s, 1), items)
             suffix == choice(Draw(s, 2), VARIANT_SUFFIXES)
             offset == randint(Draw(s, 3), -150, 250)
             m == make_menu_item(Len(items) + 1, Append(base.name, suffix),
                                 title(base.category), base.price + offset,
                                 Draw(s, 4))
         IN extend_menu_one_more(Append(items, m.val), m.rng, count)

\* extend_menu numbering a variant with the length of the list before it
RECURSIVE extend_menu_reuse_id(_, _, _)
extend_menu_reuse_id(items, s, count) ==
    IF Len(items) >= count THEN [val |-> items, rng |-> s]
    ELSE LET base == choice(Draw(s, 1), items)
             suffix == choice(Draw(s, 2), VARIANT_SUFFIXES)
             offset == randint(Draw(s, 3), -150, 250)
             m == make_menu_item(Len(items), Append(base.name, suffix),
                                 title(base.category), base.price + offset,
                                 Draw(s, 4))
         IN extend_menu_reuse_id(Append(items, m.val), m.rng, count)

\* the while loop of build_menu_items: draw 1 the base item, 2 the suffix,
\* 3 the price offset uniform(-1.5, 2.5) in cents, 4 the cost offset, then
\* make_menu_item. A variant's name is the base's name with the suffix.
RECURSIVE extend_menu(_, _, _)
extend_menu(items, s, count) ==
    IF Len(items) >= count THEN [val |-> items, rng |-> s]
    ELSE LET base == choice(Draw(s, 1), items)
             suffix == choice(Draw(s, 2), VARIANT_SUFFIXES)
             offset == randint(Draw(s, 3), -150, 250)
             m == make_menu_item(Len(items) + 1, Append(base.name, suffix),
                                 title(base.category), base.price + offset,
                                 Draw(s, 4))
         IN extend_menu(Append(items, m.val), m.rng, count)

\* build_menu_items returning exactly `count` items
build_menu_items_cut(s, count) ==
    LET catalog == catalog_items(1, s, <<>>)
        all == extend_menu(catalog.val, catalog.rng, count)
    IN [val |-> SubSeq(all.val, 1, count), rng |-> all.rng]

build_menu_items(s, count) ==
    LET catalog == catalog_items(1, s, <<>>)
    IN extend_menu(catalog.val, catalog.rng, count)

\* {item["item_id"]: item for item in menu_items}: its keys
MenuIndex(menu) == {menu[i].item_id : i \in 1..Len(menu)}

\* line_item with the unit price as the line total
line_item_unit_total(item, quantity) ==
    [menu_item_id |-> item.item_id,
     name |-> item.name,
     quantity |-> quantity,
     unit_price |-> item.price,
     total_price |-> item.price]

\* one line item of choose_items
line_item(item, quantity) ==
    [menu_item_id |-> item.item_id,
     name |-> item.name,
     quantity |-> quantity,
     unit_price |-> item.price,
     total_price |-> quantity * item.price]

\* choose_items: draw 1 the number k of items, the draws of random.sample
\* (k of them for a menu of at most SAMPLE_SETSIZE items), then one quantity
\* draw per chosen item
choose_items(menu, s) ==
    LET k == randint(Draw(s, 1), 1, 4)
        picked == sample(Draw(s, 1), Len(menu), k)
        sQ == sample_rng(Draw(s, 1), Len(menu), k)
    IN [val |-> [i \in 1..k |->
                    line_item(menu[picked[i]], randint(Draw(sQ, i), 1, 3))],
        rng |-> Draw(sQ, k)]

\* make_user: draws 1-2 name, 3 role, 4 hire date, 5-6 e-mail, 7 active
make_user(user_id, s, clock) ==
    [val |-> [_id |-> Id("staff", user_id),
              user_id |-> Id("staff", user_id),
              hire_date |->
                  strftime_date(clock - timedelta(randint(Draw(s, 4), 120, 720), 0, 0))],
     rng |-> Draw(s, 7)]

RECURSIVE make_users(_, _, _, _, _)
make_users(i, count, s, clock, acc) ==
    IF i > count THEN [val |-> acc, rng |-> s]
    ELSE LET u == make_user(i, s, clock)
         IN make_users(i + 1, count, u.rng, clock, Append(acc, u.val))

---------------------------------------------------------------------------
(* The order loop of generate_dataset *)

RECURSIVE SumTotalPrice(_)
SumTotalPrice(items) ==
    IF Len(items) = 0 THEN 0
    ELSE items[1].total_price + SumTotalPrice(Tail(items))

\* order_id_of numbering from the loop variable itself
order_id_zero_based(order_num) == Id("order", order_num)

\* f"order_{order_num + 1:05d}" for the loop variable order_num = 0, 1, ...
order_id_of(order_num) == Id("order", order_num + 1)

\* order_total with the tax left out
order_total_no_tax(subtotal, discount, tax) == Round2(subtotal - discount, 1, FALSE)

\* round(subtotal - discount + tax, 2)
order_total(subtotal, discount, tax) == Round2(subtotal - discount + tax, 1, FALSE)

\* needs_delivery without the test of the status
needs_delivery_any_status(order_type, status) == order_type = "delivery"

\* order_type == "delivery" and status in {"completed", "pending"}
needs_delivery(order_type, status) ==
    order_type = "delivery" /\ status \in {"completed", "pending"}

\* customer_stats[...]: the entry of a defaultdict
DefaultStats == [total |-> 0, count |-> 0, last |-> None, points |-> 0]

StatsOf(stats, customer_id) ==
    IF customer_id \in DOMAIN stats THEN stats[customer_id] ELSE DefaultStats

\* new_customer_stats handing the dict of the call before to the next call
new_customer_stats_kept(old) == old

\* customer_stats = defaultdict(...): the name is bound to a new, empty dict,
\* whatever it was bound to
new_customer_stats(old) == [c \in {} |-> DefaultStats]

\* update_stats with the total assigned instead of added
update_stats_assign(st, total_amount, created_at) ==
    [total |-> total_amount,
     count |-> st.count + 1,
     last |-> IF st.last # None THEN Max(st.last, created_at) ELSE created_at,
     points |-> st.points + (total_amount \div 1000)]

\* update_stats keeping the creation time of the order handled last
update_stats_last_handled(st, total_amount, created_at) ==
    [total |-> st.total + total_amount,
     count |-> st.count + 1,
     last |-> created_at,
     points |-> st.points + (total_amount \div 1000)]

\* the four updates of one customer's running statistics
update_stats(st, total_amount, created_at) ==
    [total |-> st.total + total_amount,
     count |-> st.count + 1,
     last |-> IF st.last # None THEN Max(st.last, created_at) ELSE created_at,
     points |-> st.points + (total_amount \div 1000)]

\* append_audit leaving out the orders that are not completed
append_audit_completed_only(logs, entry) ==
    IF entry.details = "completed" THEN Append(logs, entry) ELSE logs

\* audit_logs.append({...}): the statement is under no condition
append_audit(logs, entry) == Append(logs, entry)

\* delivery_address_of giving every order an address
delivery_address_always(order_type, address) == address

\* "delivery_address": random_address() if order_type == "delivery" else None
\* The key is written in both cases.
delivery_address_of(order_type, address) ==
    IF order_type = "delivery" THEN address ELSE None

\* order_customer naming a customer that is not in the list
order_customer_unlisted(d, custs) ==
    [choice(d, custs) EXCEPT !.customer_id = Id("cust", Len(custs) + 1)]

\* customer = random.choice(customers)
order_customer(d, custs) == choice(d, custs)

\* audit_staff drawing from range(0, USER_COUNT + 1)
audit_staff_from_zero(d) == Id("staff", randint(d, 0, USER_COUNT))

\* random.choice([f"staff_{i:03d}" for i in range(1, USER_COUNT + 1)])
audit_staff(d) == choice(d, [i \in 1..USER_COUNT |-> Id("staff", i)])

\* order_loop_done letting the loop run once more
order_loop_done_one_late(n, count) == n > count

\* for order_num in range(ORDER_COUNT): the loop has run its iterations once
\* n of them are done
order_loop_done(n, count) == n >= count

\* One iteration of the loop. Draws: 1 the customer; choose_items; random()
\* against 0.35 and, below it, the discount rate; order type; status; the
\* day and the hour of random_date; payment mode; special instructions; the
\* three draws of random_address for a delivery; the seven draws of a
\* delivery record; the staff member and the action of the audit entry.
\* An address is kept as its street number.
synthesize_order(order_num, s, clock, custs, menu, up) ==
    LET order_id == order_id_of(order_num)
        customer == order_customer(Draw(s, 1), custs)
        chosen == choose_items(menu, Draw(s, 1))
        items == chosen.val
        subtotal == SumTotalPrice(items)
        sD == chosen.rng
        applies == random(Draw(sD, 1)) * 100 < 35 * RandomResolution
        rate == IF applies THEN choice(Draw(sD, 2), DISCOUNT_RATES) ELSE 0
        discount == Round2(subtotal * rate, 100, up)
        tax == Round2((subtotal - discount) * 8, 100, FALSE)
        total_amount == order_total(subtotal, discount, tax)
        sT == Draw(sD, IF applies THEN 2 ELSE 1)
        order_type == choices(Draw(sT, 1), ORDER_TYPES, ORDER_TYPE_WEIGHTS)
        status == choices(Draw(sT, 2), ORDER_STATUSES, ORDER_STATUS_WEIGHTS)
        created_at == (clock - timedelta(120, 0, 0))
                      + timedelta(randint(Draw(sT, 3), 0, 110),
                                  randint(Draw(sT, 4), 8, 21), 0)
        sA == Draw(sT, 6)
        is_delivery == order_type = "delivery"
        sV == Draw(sA, IF is_delivery THEN 3 ELSE 0)
        delivered == needs_delivery(order_type, status)
        pickup_time == created_at + timedelta(0, 0, randint(Draw(sV, 1), 15, 25))
        delivery_time == pickup_time + timedelta(0, 0, randint(Draw(sV, 2), 12, 28))
        sU == Draw(sV, IF delivered THEN 7 ELSE 0)
    IN [order |->
            [_id |-> order_id,
             order_id |-> order_id,
             customer_id |-> customer.customer_id,
             created_at |-> iso(created_at),
             order_type |-> order_type,
             status |-> status,
             total_amount |-> total_amount,
             subtotal |-> Round2(subtotal, 1, FALSE),
             discount |-> discount,
             tax |-> tax,
             items |-> items,
             delivery_address |->
                 delivery_address_of(order_type, randint(Draw(sA, 1), 10, 999))],
        tie |-> IsTie(subtotal * rate, 100),
        tie_key |-> <<[i \in 1..Len(items) |-> items[i].total_price], rate>>,
        created_at |-> created_at,
        delivery |->
            IF delivered
            THEN << [_id |-> <<"delivery", order_id>>,
                     order_id |-> order_id,
                     pickup_time |-> iso(pickup_time),
                     delivery_time |-> iso(delivery_time),
                     delivery_status |->
                         IF status = "completed" THEN "delivered" ELSE "in_transit"] >>
            ELSE <<>>,
        audit |->
            [_id |-> <<"audit", order_id>>,
             timestamp |-> iso(created_at + timedelta(0, 0, 5)),
             user_id |-> audit_staff(Draw(sU, 1)),
             resource_id |-> order_id,
             details |-> status],
        rng |-> Draw(sU, 2)]

\* the body of the finalize loop for one customer
finalize_customer(customer, st) ==
    [customer EXCEPT
        !.total_spent = Round2(st.total, 1, FALSE),
        !.orders_count = st.count,
        !.loyalty_points = st.points,
        !.last_order_date = IF st.last # None THEN strftime_date(st.last) ELSE None]

\* assemble_dataset with the menu cut to the requested count
assemble_dataset_cut_menu(cs, menu, os, deliveries, us, audits) ==
    [customers |-> cs,
     menu_items |-> SubSeq(menu, 1, MENU_ITEM_COUNT),
     orders |-> os,
     delivery_details |-> deliveries,
     users |-> us,
     audit_logs |-> audits]

\* the dict generate_dataset returns
assemble_dataset(cs, menu, os, deliveries, us, audits) ==
    [customers |-> cs,
     menu_items |-> menu,
     orders |-> os,
     delivery_details |-> deliveries,
     users |-> us,
     audit_logs |-> audits]

\* the body of the sanity check for one line item: draw 1 the replacement
repair_item(item, menu, index, s) ==
    IF item.menu_item_id \notin index
    THEN LET item_info == choice(Draw(s, 1), menu)
         IN [val |-> [item EXCEPT
                         !.menu_item_id = item_info.item_id,
                         !.name = item_info.name,
                         !.unit_price = item_info.price,
                         !.total_price = item_info.price * item.quantity],
             rng |-> Draw(s, 1)]
    ELSE [val |-> item, rng |-> s]

RECURSIVE repair_items(_, _, _, _, _)
repair_items(items, menu, index, s, acc) ==
    IF Len(items) = 0 THEN [val |-> acc, rng |-> s]
    ELSE LET r == repair_item(items[1], menu, index, s)
         IN repair_items(Tail(items), menu, index, r.rng, Append(acc, r.val))

RECURSIVE repair_orders(_, _, _, _, _)
repair_orders(os, menu, index, s, acc) ==
    IF Len(os) = 0 THEN [val |-> acc, rng |-> s]
    ELSE LET r == repair_items(os[1].items, menu, index, s, <<>>)
         IN repair_orders(Tail(os), menu, index, r.rng,
                          Append(acc, [os[1] EXCEPT !.items = r.val]))

---------------------------------------------------------------------------
(* main() *)

\* configured_counts taking the customer count as given
configured_counts_customers_unclamped(a) ==
    [orders |-> Max(1, a.orders),
     customers |-> a.customers,
     menu_items |-> Max(8, a.menu_items)]

\* configured_counts with zero as the least order count
configured_counts_zero_orders(a) ==
    [orders |-> Max(0, a.orders),
     customers |-> Max(1, a.customers),
     menu_items |-> Max(8, a.menu_items)]

\* ORDER_COUNT, CUSTOMER_COUNT and MENU_ITEM_COUNT as main() sets them
configured_counts(a) ==
    [orders |-> Max(1, a.orders),
     customers |-> Max(1, a.customers),
     menu_items |-> Max(8, a.menu_items)]

OrderArgs == -1..MaxOrders
CustomerArgs == 0..MaxCustomers
MenuArgs == {0, 8, CatalogSize} \cup (CatalogSize + 1)..MaxMenuItems
ClockSteps == {1, Day}

NoFiles == [c \in {} |-> <<>>]
NoStats == [c \in {} |-> DefaultStats]

\* the documents a collection of the store holds before the command runs
OldDocuments == << [_id |-> <<"old", 1>>], [_id |-> <<"old", 2>>] >>

\* a collection of the database that the generator does not know
OTHER_COLLECTION == "reservations"

StoreCollections == {COLLECTIONS[k] : k \in 1..Len(COLLECTIONS)} \cup {OTHER_COLLECTION}

EmptyStore == [c \in StoreCollections |-> <<>>]
OldStore == [c \in StoreCollections |-> OldDocuments]

\* an environment variable that is not set, or set to the empty string:
\* os.getenv() gives None or "", and `or` and `not` take both for false
Unset == ""

NoEnv == [MONGODB_URI |-> Unset, MONGO_URI |-> Unset,
          MONGODB_DATABASE |-> Unset, DB_NAME |-> Unset]

Environments ==
    [MONGODB_URI : {Unset, "mongodb://primary"},
     MONGO_URI : {Unset, "mongodb://legacy"},
     MONGODB_DATABASE : {Unset, "restaurant"},
     DB_NAME : {Unset, "legacy_db"}]

InsertOrderArgs == 1..MaxInsertOrders
InsertMenuArgs == {8, CatalogSize + 1}

\* no call of the mongodb_query tool is made
NoRequest == [collection |-> "", query |-> [type |-> "none", value |-> ""],
              limit |-> [type |-> "int", value |-> 0]]
NoResponse == [success |-> FALSE, error |-> "no call"]

NoCall == request = NoRequest /\ dbUp = TRUE /\ response = NoResponse

\* the launcher has not been started
NoLaunch ==
    /\ launcher = "none"
    /\ mcp_process = "unbound"
    /\ api_process = "unbound"
    /\ launchLog = <<>>
    /\ exit_status = "none"
    /\ sleeps = 0

\* None where a database handle is expected
NoDatabase == [client |-> None, name |-> ""]

NoClientCall == [call |-> "none", value |-> "none", handle |-> NoDatabase]

\* a MongoDBClient as __init__ leaves it, never used
NoClientUse ==
    /\ _client = None
    /\ _db = NoDatabase
    /\ connections = <<>>
    /\ uri_set = FALSE
    /\ lastCall = NoClientCall

\* self.agent = None, and the agent create_agent returns
NoAgent == "None"
CompiledAgent == "CompiledStateGraph"

\* a MongoDBAnalyticsAgent as __init__ leaves it, never used
NoAgentUse ==
    /\ agent = NoAgent
    /\ agentCall = [method |-> "none"]
    /\ agentResult = [raised |-> "no call"]

\* the launcher, the MCP server's client and the agent are not in use
OtherProgramsIdle == NoLaunch /\ NoClientUse /\ NoAgentUse

\* a process at the start of main(), on a given command line, environment
\* and store
Start(a, e, importable, db) ==
    /\ pc = "main"
    /\ args = a
    /\ env = e
    /\ pymongo = importable
    /\ store = db
    /\ client = "none"
    /\ database_name = Unset
    /\ cursor = 0
    /\ storeOps = <<>>
    /\ RANDOM_SEED = DEFAULT_RANDOM_SEED
    /\ ORDER_COUNT = DEFAULT_ORDER_COUNT
    /\ CUSTOMER_COUNT = DEFAULT_CUSTOMER_COUNT
    /\ MENU_ITEM_COUNT = DEFAULT_MENU_ITEM_COUNT
    /\ rng = SeedState(0)
    /\ now = StartClock
    /\ ticks = 0
    /\ fpTies = [k \in {} |-> FALSE]
    /\ customers = <<>>
    /\ menu_items = <<>>
    /\ menu_index = {}
    /\ customer_stats = NoStats
    /\ orders = <<>>
    /\ delivery_records = <<>>
    /\ audit_logs = <<>>
    /\ users = <<>>
    /\ dataset = NoFiles
    /\ files = NoFiles
    /\ prevFiles = NoFiles
    /\ runs = 1
    /\ calls = 1
    /\ error = NoError

\* the command without --insert
Init ==
    \E a \in [seed : 1..MaxSeed, orders : OrderArgs, customers : CustomerArgs,
              menu_items : MenuArgs, insert : {FALSE}] :
        Start(a, NoEnv, FALSE, EmptyStore) /\ NoCall /\ OtherProgramsIdle

\* the command without --insert, asked for a menu long enough for variants
\* of variants of variants
InitPrices ==
    \E a \in [seed : MinPriceSeed..MaxPriceSeed, orders : {PriceOrders},
              customers : {1}, menu_items : {PriceMenuItems}, insert : {FALSE}] :
        Start(a, NoEnv, FALSE, EmptyStore) /\ NoCall /\ OtherProgramsIdle

\* the command with or without --insert, in every environment, with pymongo
\* installed or not, on an empty store and on one that holds documents
InitInsert ==
    \E a \in [seed : 1..MaxInsertSeed, orders : InsertOrderArgs, customers : {1},
              menu_items : InsertMenuArgs, insert : BOOLEAN] :
        \E e \in Environments, importable \in BOOLEAN, db \in {EmptyStore, OldStore} :
            Start(a, e, importable, db) /\ NoCall /\ OtherProgramsIdle

\* main, lines 457-463: the globals take the clamped command line values
Configure ==
    /\ pc = "main"
    /\ pc' = "customers"
    /\ RANDOM_SEED' = args.seed
    /\ ORDER_COUNT' = configured_counts(args).orders
    /\ CUSTOMER_COUNT' = configured_counts(args).customers
    /\ MENU_ITEM_COUNT' = configured_counts(args).menu_items
    /\ UNCHANGED <<calls, args, rng, now, ticks, fpTies, customers, menu_items,
                   menu_index, customer_stats, orders, delivery_records,
                   audit_logs, users, dataset, files, prevFiles, runs, error>>
    /\ UNCHANGED insertVars
    /\ UNCHANGED queryVars
    /\ UNCHANGED launcherVars
    /\ UNCHANGED clientVars
    /\ UNCHANGED agentVars

\* generate_dataset, lines 259-261: seed the stream, build the customers
BuildCustomers ==
    /\ pc = "customers"
    /\ LET built == make_customers(1, CUSTOMER_COUNT, SeedState(RANDOM_SEED), now, <<>>)
       IN /\ customers' = built.val
          /\ rng' = built.rng
    /\ pc' = "menu"
    /\ UNCHANGED <<calls, args, RANDOM_SEED, ORDER_COUNT, CUSTOMER_COUNT, MENU_ITEM_COUNT,
                   now, ticks, fpTies, menu_items, menu_index, customer_stats,
                   orders, delivery_records, audit_logs, users, dataset, files,
                   prevFiles, runs, error>>
    /\ UNCHANGED insertVars
    /\ UNCHANGED queryVars
    /\ UNCHANGED launcherVars
    /\ UNCHANGED clientVars
    /\ UNCHANGED agentVars

\* generate_dataset, lines 262-269: the menu, its index, the empty accumulators
BuildMenu ==
    /\ pc = "menu"
    /\ LET built == build_menu_items(rng, MENU_ITEM_COUNT)
       IN /\ menu_items' = built.val
          /\ menu_index' = MenuIndex(built.val)
          /\ rng' = built.rng
    /\ customer_stats' = new_customer_stats(customer_stats)
    /\ delivery_records' = <<>>
    /\ audit_logs' = <<>>
    /\ orders' = <<>>
    /\ pc' = "orders"
    /\ UNCHANGED <<calls, args, RANDOM_SEED, ORDER_COUNT, CUSTOMER_COUNT, MENU_ITEM_COUNT,
                   now, ticks, fpTies, customers, users, dataset, files,
                   prevFiles, runs, error>>
    /\ UNCHANGED insertVars
    /\ UNCHANGED queryVars
    /\ UNCHANGED launcherVars
    /\ UNCHANGED clientVars
    /\ UNCHANGED agentVars

\* generate_dataset, lines 270-346: one iteration of the order loop.
\* random.choice raises IndexError on an empty customer list.
GenerateOrder ==
    /\ pc = "orders"
    /\ ~order_loop_done(Len(orders), ORDER_COUNT)
    /\ IF Len(customers) = 0
       THEN /\ pc' = "failed"
            /\ error' = "IndexError"
            /\ UNCHANGED <<rng, fpTies, customer_stats, orders, delivery_records,
                           audit_logs>>
       ELSE \E up \in BOOLEAN :
               LET o == synthesize_order(Len(orders), rng, now, customers,
                                         menu_items, up)
                   cid == o.order.customer_id
               IN /\ IF o.tie
                     THEN IF o.tie_key \in DOMAIN fpTies
                          THEN up = fpTies[o.tie_key]
                          ELSE TRUE
                     ELSE up = FALSE
                  /\ fpTies' = IF o.tie /\ o.tie_key \notin DOMAIN fpTies
                               THEN fpTies @@ (o.tie_key :> up)
                               ELSE fpTies
                  /\ orders' = Append(orders, o.order)
                  /\ customer_stats' =
                         [c \in DOMAIN customer_stats \cup {cid} |->
                             IF c = cid
                             THEN update_stats(StatsOf(customer_stats, cid),
                                               o.order.total_amount, o.created_at)
                             ELSE customer_stats[c]]
                  /\ delivery_records' = delivery_records \o o.delivery
                  /\ audit_logs' = append_audit(audit_logs, o.audit)
                  /\ rng' = o.rng
                  /\ UNCHANGED <<pc, error>>
    /\ UNCHANGED <<calls, args, RANDOM_SEED, ORDER_COUNT, CUSTOMER_COUNT, MENU_ITEM_COUNT,
                   now, ticks, customers, menu_items, menu_index, users, dataset,
                   files, prevFiles, runs>>
    /\ UNCHANGED insertVars
    /\ UNCHANGED queryVars
    /\ UNCHANGED launcherVars
    /\ UNCHANGED clientVars
    /\ UNCHANGED agentVars

\* generate_dataset, lines 348-354: the customers take their statistics
FinalizeCustomers ==
    /\ pc = "orders"
    /\ order_loop_done(Len(orders), ORDER_COUNT)
    /\ customers' = [i \in 1..Len(customers) |->
                        finalize_customer(customers[i],
                            StatsOf(customer_stats, customers[i].customer_id))]
    /\ customer_stats' =
           [c \in DOMAIN customer_stats
                    \cup {customers[i].customer_id : i \in 1..Len(customers)} |->
               StatsOf(customer_stats, c)]
    /\ pc' = "users"
    /\ UNCHANGED <<calls, args, RANDOM_SEED, ORDER_COUNT, CUSTOMER_COUNT, MENU_ITEM_COUNT,
                   rng, now, ticks, fpTies, menu_items, menu_index, orders,
                   delivery_records, audit_logs, users, dataset, files,
                   prevFiles, runs, error>>
    /\ UNCHANGED insertVars
    /\ UNCHANGED queryVars
    /\ UNCHANGED launcherVars
    /\ UNCHANGED clientVars
    /\ UNCHANGED agentVars

\* generate_dataset, lines 356-365: the users and the dataset dict
BuildUsers ==
    /\ pc = "users"
    /\ LET built == make_users(1, USER_COUNT, rng, now, <<>>)
       IN /\ users' = built.val
          /\ rng' = built.rng
          /\ dataset' = assemble_dataset(customers, menu_items, orders,
                                         delivery_records, built.val, audit_logs)
    /\ pc' = "repair"
    /\ UNCHANGED <<calls, args, RANDOM_SEED, ORDER_COUNT, CUSTOMER_COUNT, MENU_ITEM_COUNT,
                   now, ticks, fpTies, customers, menu_items, menu_index,
                   customer_stats, orders, delivery_records, audit_logs, files,
                   prevFiles, runs, error>>
    /\ UNCHANGED insertVars
    /\ UNCHANGED queryVars
    /\ UNCHANGED launcherVars
    /\ UNCHANGED clientVars
    /\ UNCHANGED agentVars

\* generate_dataset, lines 367-377: the sanity check over dataset["orders"],
\* then the return, which ends the life of the locals. customer_stats is left
\* as it is: nothing reads it before a next call binds the name anew.
RepairAndReturn ==
    /\ pc = "repair"
    /\ LET fixed == repair_orders(dataset.orders, menu_items, menu_index, rng, <<>>)
       IN /\ dataset' = [dataset EXCEPT !.orders = fixed.val]
          /\ rng' = fixed.rng
    /\ customers' = <<>>
    /\ menu_items' = <<>>
    /\ menu_index' = {}
    /\ orders' = <<>>
    /\ delivery_records' = <<>>
    /\ audit_logs' = <<>>
    /\ users' = <<>>
    /\ pc' = "returned"
    /\ UNCHANGED <<calls, args, RANDOM_SEED, ORDER_COUNT, CUSTOMER_COUNT, MENU_ITEM_COUNT,
                   now, ticks, fpTies, customer_stats, files, prevFiles, runs, error>>
    /\ UNCHANGED insertVars
    /\ UNCHANGED queryVars
    /\ UNCHANGED launcherVars
    /\ UNCHANGED clientVars
    /\ UNCHANGED agentVars

\* written_files writing no file for a collection without records
written_files_skip_empty(fs, ds) ==
    [c \in DOMAIN fs \cup {k \in DOMAIN ds : ds[k] # <<>>} |->
        IF c \in DOMAIN ds /\ ds[c] # <<>> THEN ds[c] ELSE fs[c]]

\* the files after write_json_files(ds): one per collection of the dataset,
\* holding its records, written anew whether it existed or not
written_files(fs, ds) ==
    [c \in DOMAIN fs \cup DOMAIN ds |-> IF c \in DOMAIN ds THEN ds[c] ELSE fs[c]]

\* write_json_files: every collection of the dataset goes to its file
WriteJsonFiles ==
    /\ pc = "returned"
    /\ files' = written_files(files, dataset)
    /\ pc' = "written"
    /\ UNCHANGED <<calls, args, RANDOM_SEED, ORDER_COUNT, CUSTOMER_COUNT, MENU_ITEM_COUNT,
                   rng, now, ticks, fpTies, customers, menu_items, menu_index,
                   customer_stats, orders, delivery_records, audit_logs, users,
                   dataset, prevFiles, runs, error>>
    /\ UNCHANGED insertVars
    /\ UNCHANGED queryVars
    /\ UNCHANGED launcherVars
    /\ UNCHANGED clientVars
    /\ UNCHANGED agentVars

\* main, lines 468-475: without --insert, or after insert_into_mongo, the
\* closing messages, and the process ends
Finish ==
    /\ pc = (IF args.insert THEN "inserted" ELSE "written")
    /\ pc' = "done"
    /\ UNCHANGED <<calls, args, RANDOM_SEED, ORDER_COUNT, CUSTOMER_COUNT, MENU_ITEM_COUNT,
                   rng, now, ticks, fpTies, customers, menu_items, menu_index,
                   customer_stats, orders, delivery_records, audit_logs, users,
                   dataset, files, prevFiles, runs, error>>
    /\ UNCHANGED insertVars
    /\ UNCHANGED queryVars
    /\ UNCHANGED launcherVars
    /\ UNCHANGED clientVars
    /\ UNCHANGED agentVars

\* The command is started again with the same command line: a new process,
\* whose globals and locals are fresh; the files and the clock stay.
RunAgain ==
    /\ pc \in {"done", "failed"}
    /\ runs < MaxRuns
    /\ runs' = runs + 1
    /\ prevFiles' = files
    /\ pc' = "main"
    /\ RANDOM_SEED' = DEFAULT_RANDOM_SEED
    /\ ORDER_COUNT' = DEFAULT_ORDER_COUNT
    /\ CUSTOMER_COUNT' = DEFAULT_CUSTOMER_COUNT
    /\ MENU_ITEM_COUNT' = DEFAULT_MENU_ITEM_COUNT
    /\ rng' = SeedState(0)
    /\ customers' = <<>>
    /\ menu_items' = <<>>
    /\ menu_index' = {}
    /\ customer_stats' = NoStats
    /\ orders' = <<>>
    /\ delivery_records' = <<>>
    /\ audit_logs' = <<>>
    /\ users' = <<>>
    /\ dataset' = NoFiles
    /\ error' = NoError
    /\ calls' = 1
    /\ UNCHANGED <<args, now, ticks, fpTies, files>>
    /\ UNCHANGED insertVars
    /\ UNCHANGED queryVars
    /\ UNCHANGED launcherVars
    /\ UNCHANGED clientVars
    /\ UNCHANGED agentVars

\* Time passes between two runs of the command, by less than a second or by
\* a day. One run is taken to be shorter than a tick of the clock, so all its
\* datetime.utcnow() calls read the same instant.
Tick ==
    /\ pc \in {"done", "failed"}
    /\ ticks < MaxTicks
    /\ ticks' = ticks + 1
    /\ \E d \in ClockSteps : now' = now + d
    /\ UNCHANGED <<calls, pc, args, RANDOM_SEED, ORDER_COUNT, CUSTOMER_COUNT,
                   MENU_ITEM_COUNT, rng, fpTies, customers, menu_items,
                   menu_index, customer_stats, orders, delivery_records,
                   audit_logs, users, dataset, files, prevFiles, runs, error>>
    /\ UNCHANGED insertVars
    /\ UNCHANGED queryVars
    /\ UNCHANGED launcherVars
    /\ UNCHANGED clientVars
    /\ UNCHANGED agentVars

Next ==
    \/ Configure
    \/ BuildCustomers
    \/ BuildMenu
    \/ GenerateOrder
    \/ FinalizeCustomers
    \/ BuildUsers
    \/ RepairAndReturn
    \/ WriteJsonFiles
    \/ Finish

---------------------------------------------------------------------------
(* insert_into_mongo() *)

RuntimeErrorPymongo == "RuntimeError: pymongo is required to insert data"
RuntimeErrorUri == "RuntimeError: Set MONGODB_URI (or MONGO_URI) in .env before using --insert"
InvalidURI == "pymongo.errors.InvalidURI"
DropFailed == "pymongo.errors.PyMongoError in drop"
InsertFailed == "pymongo.errors.PyMongoError in insert_many"

\* mongo_uri falling back to a local server
mongo_uri_default_localhost(e) ==
    IF e.MONGODB_URI # Unset THEN e.MONGODB_URI
    ELSE IF e.MONGO_URI # Unset THEN e.MONGO_URI
    ELSE "mongodb://localhost:27017"

\* os.getenv("MONGODB_URI") or os.getenv("MONGO_URI")
mongo_uri(e) ==
    IF e.MONGODB_URI # Unset THEN e.MONGODB_URI ELSE e.MONGO_URI

\* os.getenv("MONGODB_DATABASE") or os.getenv("DB_NAME") or DEFAULT_DB_NAME
database_name_of(e) ==
    IF e.MONGODB_DATABASE # Unset THEN e.MONGODB_DATABASE
    ELSE IF e.DB_NAME # Unset THEN e.DB_NAME
    ELSE DEFAULT_DB_NAME

\* drop_collection leaving the documents in place
drop_collection_kept(docs) == docs

\* collection.drop(): the documents of the collection after it
drop_collection(docs) == <<>>

\* collection.insert_many(records): the documents of the collection after it
insert_many(docs, records) == docs \o records

\* documents_after_insert giving every record a new _id
documents_after_insert_new_ids(records) ==
    [i \in 1..Len(records) |-> [records[i] EXCEPT !["_id"] = <<"ObjectId", i>>]]

\* what insert_many makes of the records it is handed: the driver adds an
\* _id, in place, to each document that has none
documents_after_insert(records) ==
    [i \in 1..Len(records) |->
        IF "_id" \in DOMAIN records[i] THEN records[i]
        ELSE records[i] @@ [_id |-> <<"ObjectId", i>>]]

\* insert_into_mongo, lines 394-402: pymongo, the connection string, the
\* database name
InsertIntoMongo ==
    /\ pc = "written"
    /\ args.insert
    /\ IF ~pymongo
       THEN /\ pc' = "failed"
            /\ error' = RuntimeErrorPymongo
            /\ UNCHANGED database_name
       ELSE IF mongo_uri(env) = Unset
       THEN /\ pc' = "failed"
            /\ error' = RuntimeErrorUri
            /\ UNCHANGED database_name
       ELSE /\ pc' = "connect"
            /\ database_name' = database_name_of(env)
            /\ UNCHANGED error
    /\ UNCHANGED <<args, RANDOM_SEED, ORDER_COUNT, CUSTOMER_COUNT, MENU_ITEM_COUNT,
                   rng, now, ticks, fpTies, customers, menu_items, menu_index,
                   customer_stats, orders, delivery_records, audit_logs, users,
                   dataset, files, prevFiles, runs, calls,
                   env, pymongo, client, store, cursor, storeOps>>
    /\ UNCHANGED queryVars
    /\ UNCHANGED launcherVars
    /\ UNCHANGED clientVars
    /\ UNCHANGED agentVars

\* insert_into_mongo, lines 404-405: the client, which rejects a connection
\* string it cannot parse and connects only at the first operation
CreateClient ==
    /\ pc = "connect"
    /\ \E ok \in BOOLEAN :
          IF ok
          THEN /\ client' = "open"
               /\ cursor' = 1
               /\ pc' = "drop"
               /\ UNCHANGED error
          ELSE /\ pc' = "failed"
               /\ error' = InvalidURI
               /\ UNCHANGED <<client, cursor>>
    /\ UNCHANGED <<args, RANDOM_SEED, ORDER_COUNT, CUSTOMER_COUNT, MENU_ITEM_COUNT,
                   rng, now, ticks, fpTies, customers, menu_items, menu_index,
                   customer_stats, orders, delivery_records, audit_logs, users,
                   dataset, files, prevFiles, runs, calls,
                   env, pymongo, database_name, store, storeOps>>
    /\ UNCHANGED queryVars
    /\ UNCHANGED launcherVars
    /\ UNCHANGED clientVars
    /\ UNCHANGED agentVars

\* LoopAdvances passing over every second collection
LoopSkipsOne ==
    IF cursor + 1 < Len(COLLECTIONS)
    THEN pc' = "drop" /\ cursor' = cursor + 2
    ELSE pc' = "close" /\ cursor' = cursor

\* the loop of insert_into_mongo moves on: to the next collection of the
\* dataset, or past the last one to client.close()
LoopAdvances ==
    IF cursor < Len(COLLECTIONS)
    THEN pc' = "drop" /\ cursor' = cursor + 1
    ELSE pc' = "close" /\ cursor' = cursor

\* insert_into_mongo, lines 407-410: collection.drop() for the collection
\* the loop is at. The first operation also opens the connection; a server
\* that cannot be reached or refuses fails the operation and changes nothing.
DropCollection ==
    /\ pc = "drop"
    /\ LET c == COLLECTIONS[cursor]
       IN /\ storeOps' = Append(storeOps, <<"drop", c>>)
          /\ \E ok \in BOOLEAN :
                IF ok
                THEN /\ store' = [store EXCEPT ![c] = drop_collection(@)]
                     /\ IF dataset[c] # <<>>
                        THEN pc' = "insert_many" /\ cursor' = cursor
                        ELSE LoopAdvances
                     /\ UNCHANGED error
                ELSE /\ pc' = "failed"
                     /\ error' = DropFailed
                     /\ UNCHANGED <<store, cursor>>
    /\ UNCHANGED <<args, RANDOM_SEED, ORDER_COUNT, CUSTOMER_COUNT, MENU_ITEM_COUNT,
                   rng, now, ticks, fpTies, customers, menu_items, menu_index,
                   customer_stats, orders, delivery_records, audit_logs, users,
                   dataset, files, prevFiles, runs, calls,
                   env, pymongo, client, database_name>>
    /\ UNCHANGED queryVars
    /\ UNCHANGED launcherVars
    /\ UNCHANGED clientVars
    /\ UNCHANGED agentVars

\* insert_into_mongo, line 411: collection.insert_many(records). An ordered
\* bulk insert that fails has inserted the documents before the failing one.
InsertMany ==
    /\ pc = "insert_many"
    /\ LET c == COLLECTIONS[cursor]
           records == dataset[c]
       IN /\ storeOps' = Append(storeOps, <<"insert_many", c>>)
          /\ dataset' = [dataset EXCEPT ![c] = documents_after_insert(@)]
          /\ \E k \in 0..Len(records) :
                IF k = Len(records)
                THEN /\ store' = [store EXCEPT ![c] = insert_many(@, records)]
                     /\ LoopAdvances
                     /\ UNCHANGED error
                ELSE /\ store' = [store EXCEPT
                                     ![c] = insert_many(@, SubSeq(records, 1, k))]
                     /\ pc' = "failed"
                     /\ error' = InsertFailed
                     /\ UNCHANGED cursor
    /\ UNCHANGED <<args, RANDOM_SEED, ORDER_COUNT, CUSTOMER_COUNT, MENU_ITEM_COUNT,
                   rng, now, ticks, fpTies, customers, menu_items, menu_index,
                   customer_stats, orders, delivery_records, audit_logs, users,
                   files, prevFiles, runs, calls,
                   env, pymongo, client, database_name>>
    /\ UNCHANGED queryVars
    /\ UNCHANGED launcherVars
    /\ UNCHANGED clientVars
    /\ UNCHANGED agentVars

\* insert_into_mongo, line 414: client.close(), and the return to main()
CloseClient ==
    /\ pc = "close"
    /\ client' = "closed"
    /\ pc' = "inserted"
    /\ UNCHANGED <<args, RANDOM_SEED, ORDER_COUNT, CUSTOMER_COUNT, MENU_ITEM_COUNT,
                   rng, now, ticks, fpTies, customers, menu_items, menu_index,
                   customer_stats, orders, delivery_records, audit_logs, users,
                   dataset, files, prevFiles, runs, calls, error,
                   env, pymongo, database_name, store, cursor, storeOps>>
    /\ UNCHANGED queryVars
    /\ UNCHANGED launcherVars
    /\ UNCHANGED clientVars
    /\ UNCHANGED agentVars

\* the command with --insert
NextInsert ==
    \/ Next
    \/ InsertIntoMongo
    \/ CreateClient
    \/ DropCollection
    \/ InsertMany
    \/ CloseClient

SpecInsert == InitInsert /\ [][NextInsert]_vars

\* A process that has the dataset calls generate_dataset once more: the module
\* globals, the random module and the clock are as the call before left them.
CallAgain ==
    /\ pc = "returned"
    /\ calls < MaxCalls
    /\ calls' = calls + 1
    /\ pc' = "customers"
    /\ UNCHANGED <<args, RANDOM_SEED, ORDER_COUNT, CUSTOMER_COUNT, MENU_ITEM_COUNT,
                   rng, now, ticks, fpTies, customers, menu_items, menu_index,
                   customer_stats, orders, delivery_records, audit_logs, users,
                   dataset, files, prevFiles, runs, error>>
    /\ UNCHANGED insertVars
    /\ UNCHANGED queryVars
    /\ UNCHANGED launcherVars
    /\ UNCHANGED clientVars
    /\ UNCHANGED agentVars

\* one run of the command
Spec == Init /\ [][Next]_vars

\* the command run again and again, with time passing between the runs
NextRerun ==
    \/ Next
    \/ RunAgain
    \/ Tick

SpecRerun == Init /\ [][NextRerun]_vars

\* a process that calls generate_dataset several times
NextCalls ==
    \/ Next
    \/ CallAgain

SpecCalls == Init /\ [][NextCalls]_vars

\* one run of the command on the long menu
SpecPrices == InitPrices /\ [][Next]_vars

---------------------------------------------------------------------------
(* The mongodb_query tool (main_dir/mcp_server/tools/mongodb_query.py).     *)
(* A value of a Python type is a record of the type's name and a value; a  *)
(* filter is "all" for {} or the status it asks for.                       *)

QUERY_LIMIT_MAX == 500  \* "limit: ... Maximum 500." in the tool's description
DEFAULT_LIMIT == 10

\* the documents of a collection of n orders, with the _id the server gave
StoredOrders(n) ==
    [i \in 1..n |-> [_id |-> [type |-> "ObjectId", value |-> i],
                     status |-> IF i % 2 = 0 THEN "completed" ELSE "pending"]]

\* json.loads(text) for the query strings tried
json_loads(text) ==
    CASE text = "{}" -> [ok |-> TRUE, type |-> "dict", value |-> "all"]
      [] text = "{\"status\": \"completed\"}" ->
             [ok |-> TRUE, type |-> "dict", value |-> "completed"]
      [] text = "[1]" -> [ok |-> TRUE, type |-> "list", value |-> "[1]"]
      [] text = "null" -> [ok |-> TRUE, type |-> "none", value |-> ""]
      [] OTHER -> [ok |-> FALSE, type |-> "none", value |-> ""]

\* str(doc['_id'])
str(id) == [type |-> "str", value |-> id.value]

\* db[collection].find(query): the documents the filter selects, in order
find(docs, filter) ==
    IF filter = "all" THEN docs
    ELSE SelectSeq(docs, LAMBDA doc : doc.status = filter)

\* cursor.limit(n) for n > 0: the first n documents, or all if there are fewer
limit(docs, n) == SubSeq(docs, 1, IF n < Len(docs) THEN n ELSE Len(docs))

\* the documents of a collection of the database; one that does not exist
\* has none
collection_of(db, name) == IF name \in DOMAIN db THEN db[name] ELSE <<>>

Failure(message) == [success |-> FALSE, error |-> message]

\* mongodb_query(collection, query, limit), lines 19-61
mongodb_query(req, db, up) ==
    LET blank == req.query.type = "str" /\ req.query.value \in {"", " "}
        loaded == json_loads(req.query.value)
        query == IF req.query.type # "str" THEN req.query
                 ELSE IF blank THEN [type |-> "dict", value |-> "all"]
                 ELSE [type |-> loaded.type, value |-> loaded.value]
        filter == IF query.type = "none" THEN "all" ELSE query.value
    IN IF req.query.type = "str" /\ ~blank /\ ~loaded.ok
       THEN Failure("Invalid JSON format for query string")
       ELSE IF req.collection = ""
       THEN Failure("Collection name must be a non-empty string")
       ELSE IF query.type \notin {"none", "dict"}
       THEN Failure("Query must be a dictionary")
       ELSE IF req.limit.type \notin {"int", "bool"} \/ req.limit.value <= 0
       THEN Failure("Limit must be a positive integer")
       ELSE IF ~up
       THEN Failure("Query operation failed")
       ELSE LET cursor_docs == limit(find(collection_of(db, req.collection), filter),
                                     req.limit.value)
                results == [i \in 1..Len(cursor_docs) |->
                               [cursor_docs[i] EXCEPT !["_id"] = str(@)]]
            IN [success |-> TRUE, data |-> results, count |-> Len(results)]

QueryValues ==
    {[type |-> "str", value |-> v] :
        v \in {"", " ", "{}", "{\"status\": \"completed\"}", "[1]", "null", "oops"}}
    \cup {[type |-> "dict", value |-> "all"], [type |-> "dict", value |-> "completed"],
          [type |-> "none", value |-> ""], [type |-> "list", value |-> "[1]"]}

\* the limits tried: integers around 0, the default and the documented
\* maximum, True, and a float and a string that are no int
LimitValues ==
    {[type |-> "int", value |-> v] :
        v \in {-1, 0, 1, DEFAULT_LIMIT, MaxStored}
              \cup (QUERY_LIMIT_MAX - 1)..(QUERY_LIMIT_MAX + 1)}
    \cup {[type |-> "bool", value |-> 1], [type |-> "float", value |-> 5],
          [type |-> "str", value |-> 5]}

StoredCounts == {0, 2, QUERY_LIMIT_MAX, MaxStored}

\* the tool is called once, on some arguments, on an orders collection of
\* some size; the generator is not run
InitQuery ==
    /\ \E a \in [seed : {1}, orders : {1}, customers : {1}, menu_items : {8},
                 insert : {FALSE}] :
          \E n \in StoredCounts :
              Start(a, NoEnv, FALSE,
                    [c \in StoreCollections |->
                        IF c = "orders" THEN StoredOrders(n) ELSE <<>>])
    /\ request \in [collection : {"orders", "missing", ""},
                    query : QueryValues, limit : LimitValues]
    /\ dbUp \in BOOLEAN
    /\ response = NoResponse
    /\ OtherProgramsIdle

\* one call of the tool
Query ==
    /\ response = NoResponse
    /\ response' = mongodb_query(request, store, dbUp)
    /\ UNCHANGED <<pc, args, RANDOM_SEED, ORDER_COUNT, CUSTOMER_COUNT,
                   MENU_ITEM_COUNT, rng, now, ticks, fpTies, customers,
                   menu_items, menu_index, customer_stats, orders,
                   delivery_records, audit_logs, users, dataset, files,
                   prevFiles, runs, calls, error, request, dbUp>>
    /\ UNCHANGED insertVars
    /\ UNCHANGED launcherVars
    /\ UNCHANGED clientVars
    /\ UNCHANGED agentVars

NextQuery == Query

SpecQuery == InitQuery /\ [][NextQuery]_vars

---------------------------------------------------------------------------
(* main.py: the launcher *)

\* the dataset generator and the query tool are not in use
GeneratorIdle ==
    /\ Start([seed |-> DEFAULT_RANDOM_SEED, orders |-> DEFAULT_ORDER_COUNT,
              customers |-> DEFAULT_CUSTOMER_COUNT,
              menu_items |-> DEFAULT_MENU_ITEM_COUNT, insert |-> FALSE],
             NoEnv, FALSE, EmptyStore)
    /\ NoCall

\* asyncio.run(main()) has been called
InitLauncher ==
    /\ GeneratorIdle
    /\ launcher = "start_mcp"
    /\ mcp_process = "unbound"
    /\ api_process = "unbound"
    /\ launchLog = <<>>
    /\ exit_status = "none"
    /\ sleeps = 0
    /\ NoClientUse
    /\ NoAgentUse

\* main, line 40: mcp_process = start_mcp_server(). subprocess.Popen raises
\* OSError when the working directory or the interpreter cannot be used; the
\* handler of line 63 then ends the launcher with sys.exit(1).
StartMcpServer ==
    /\ launcher = "start_mcp"
    /\ \E ok \in BOOLEAN :
          IF ok
          THEN /\ mcp_process' = "running"
               /\ launchLog' = Append(launchLog, <<"Popen", "mcp">>)
               /\ launcher' = "sleep_5"
               /\ UNCHANGED exit_status
          ELSE /\ launcher' = "exited"
               /\ exit_status' = "SystemExit(1)"
               /\ UNCHANGED <<mcp_process, launchLog>>
    /\ UNCHANGED <<api_process, sleeps>>
    /\ UNCHANGED <<generatorVars, insertVars, queryVars, clientVars, agentVars>>

\* main, line 41: await asyncio.sleep(5) returns
SleepAfterMcp ==
    /\ launcher = "sleep_5"
    /\ launcher' = "start_api"
    /\ UNCHANGED <<mcp_process, api_process, launchLog, exit_status, sleeps>>
    /\ UNCHANGED <<generatorVars, insertVars, queryVars, clientVars, agentVars>>

\* main, line 44: api_process = start_fastapi_server(), with the same handler
StartFastapiServer ==
    /\ launcher = "start_api"
    /\ \E ok \in BOOLEAN :
          IF ok
          THEN /\ api_process' = "running"
               /\ launchLog' = Append(launchLog, <<"Popen", "api">>)
               /\ launcher' = "sleep_3"
               /\ UNCHANGED exit_status
          ELSE /\ launcher' = "exited"
               /\ exit_status' = "SystemExit(1)"
               /\ UNCHANGED <<api_process, launchLog>>
    /\ UNCHANGED <<mcp_process, sleeps>>
    /\ UNCHANGED <<generatorVars, insertVars, queryVars, clientVars, agentVars>>

\* main, lines 45-51: await asyncio.sleep(3) returns, the banner is printed
SleepAfterApi ==
    /\ launcher = "sleep_3"
    /\ launcher' = "running"
    /\ UNCHANGED <<mcp_process, api_process, launchLog, exit_status, sleeps>>
    /\ UNCHANGED <<generatorVars, insertVars, queryVars, clientVars, agentVars>>

\* main, lines 55-56: one iteration of `while True: await asyncio.sleep(1)`
KeepRunning ==
    /\ launcher = "running"
    /\ sleeps < MaxSleeps
    /\ sleeps' = sleeps + 1
    /\ UNCHANGED <<launcher, mcp_process, api_process, launchLog, exit_status>>
    /\ UNCHANGED <<generatorVars, insertVars, queryVars, clientVars, agentVars>>

\* what the coroutine gets to see of a SIGINT while it is suspended in a
\* sleep: asyncio.run cancels the main task, which raises CancelledError at
\* the await (Python 3.11 and later, and earlier versions when the signal
\* arrives while the loop waits); KeyboardInterrupt is raised in the
\* coroutine itself only when the signal arrives while its own code runs

\* main, lines 59-60: mcp_process.terminate(); api_process.terminate()
terminate_children(log) ==
    Append(Append(log, <<"terminate", "mcp">>), <<"terminate", "api">>)

\* Ctrl+C. Only the handler of line 57 catches KeyboardInterrupt, and only
\* around the loop of lines 55-56; CancelledError and KeyboardInterrupt are
\* no Exception, so the handler of line 63 catches neither. asyncio.run ends
\* with KeyboardInterrupt whenever main() did not return.
Interrupt ==
    /\ launcher \in {"sleep_5", "sleep_3", "running"}
    /\ \E raised \in {"CancelledError", "KeyboardInterrupt"} :
          IF launcher = "running" /\ raised = "KeyboardInterrupt"
          THEN /\ launchLog' = terminate_children(launchLog)
               /\ mcp_process' = "terminated"
               /\ api_process' = "terminated"
               /\ exit_status' = "returned"
          ELSE /\ exit_status' = "KeyboardInterrupt"
               /\ UNCHANGED <<launchLog, mcp_process, api_process>>
    /\ launcher' = "exited"
    /\ UNCHANGED sleeps
    /\ UNCHANGED <<generatorVars, insertVars, queryVars, clientVars, agentVars>>

\* a child process ends by itself while the launcher runs
ChildExits ==
    /\ launcher # "exited"
    /\ \/ /\ mcp_process = "running"
          /\ mcp_process' = "exited"
          /\ UNCHANGED api_process
       \/ /\ api_process = "running"
          /\ api_process' = "exited"
          /\ UNCHANGED mcp_process
    /\ UNCHANGED <<launcher, launchLog, exit_status, sleeps>>
    /\ UNCHANGED <<generatorVars, insertVars, queryVars, clientVars, agentVars>>

NextLauncher ==
    \/ StartMcpServer
    \/ SleepAfterMcp
    \/ StartFastapiServer
    \/ SleepAfterApi
    \/ KeepRunning
    \/ Interrupt
    \/ ChildExits

SpecLauncher == InitLauncher /\ [][NextLauncher]_vars

---------------------------------------------------------------------------
(* mcp_server/utils/db_client.py: MongoDBClient *)

\* self._client[self.db_name] for the connection numbered id; db_name is
\* "hotel_management" when neither MONGODB_DATABASE nor DB_NAME is set
database_of(id) == [client |-> id, name |-> "hotel_management"]

\* connect(): the value returned and the fields of the object after it.
\* creatable: MongoClient(mongo_uri) accepts the connection string;
\* reachable: the ping succeeds. Every exception leads to `return False`
\* and undoes no assignment made before it.
connect(c, d, conns, has_uri, creatable, reachable) ==
    IF ~has_uri \/ ~creatable
    THEN [value |-> FALSE, _client |-> c, _db |-> d, connections |-> conns]
    ELSE LET id == Len(conns) + 1
             created == Append(conns, [pinged |-> reachable, closed |-> FALSE])
         IN IF reachable
            THEN [value |-> TRUE, _client |-> id, _db |-> database_of(id),
                  connections |-> created]
            ELSE [value |-> FALSE, _client |-> id, _db |-> d,
                  connections |-> created]

\* a MongoDBClient after __init__, with or without a configured connection
\* string
InitClient ==
    /\ GeneratorIdle
    /\ NoLaunch
    /\ NoAgentUse
    /\ _client = None
    /\ _db = NoDatabase
    /\ connections = <<>>
    /\ uri_set \in BOOLEAN
    /\ lastCall = NoClientCall

\* a call of connect(), as setup_server makes it
Connect ==
    /\ Len(connections) < MaxConnections
    /\ \E creatable, reachable \in BOOLEAN :
          LET r == connect(_client, _db, connections, uri_set, creatable, reachable)
          IN /\ _client' = r._client
             /\ _db' = r._db
             /\ connections' = r.connections
             /\ lastCall' = [call |-> "connect",
                             value |-> IF r.value THEN "True" ELSE "False",
                             handle |-> NoDatabase]
    /\ UNCHANGED <<generatorVars, insertVars, queryVars, launcherVars, agentVars, uri_set>>

\* a call of disconnect()
Disconnect ==
    /\ IF _client # None
       THEN /\ connections' = [connections EXCEPT ![_client].closed = TRUE]
            /\ _client' = None
            /\ _db' = NoDatabase
       ELSE UNCHANGED <<_client, _db, connections>>
    /\ lastCall' = [call |-> "disconnect", value |-> "None", handle |-> NoDatabase]
    /\ UNCHANGED <<generatorVars, insertVars, queryVars, launcherVars, agentVars, uri_set>>

\* `return self._db` of the db property
db_returns(d) ==
    [call |-> "db", value |-> IF d = NoDatabase THEN "None" ELSE "Database",
     handle |-> d]

\* a read of the db property, as every tool makes it
Db ==
    /\ _db # NoDatabase \/ Len(connections) < MaxConnections
    /\ IF _db = NoDatabase
       THEN \E creatable, reachable \in BOOLEAN :
               LET r == connect(_client, _db, connections, uri_set, creatable,
                                reachable)
               IN /\ _client' = r._client
                  /\ _db' = r._db
                  /\ connections' = r.connections
                  /\ lastCall' = IF r.value
                                 THEN db_returns(r._db)
                                 ELSE [call |-> "db", value |-> "ConnectionError",
                                       handle |-> NoDatabase]
       ELSE /\ lastCall' = db_returns(_db)
            /\ UNCHANGED <<_client, _db, connections>>
    /\ UNCHANGED <<generatorVars, insertVars, queryVars, launcherVars, agentVars, uri_set>>

NextClient ==
    \/ Connect
    \/ Disconnect
    \/ Db

SpecClient == InitClient /\ [][NextClient]_vars

---------------------------------------------------------------------------
(* api_server/agents/langgraph_agent.py: MongoDBAnalyticsAgent *)

\* user inputs: empty, shorter than three characters, with and without a
\* keyword of preprocess_query. `keyword` stands for the substring tests.
UserInputs ==
    { [text |-> "", length |-> 0, keyword |-> FALSE],
      [text |-> "hi", length |-> 2, keyword |-> FALSE],
      [text |-> "total revenue", length |-> 13, keyword |-> TRUE],
      [text |-> "hello there", length |-> 11, keyword |-> FALSE] }

\* preprocess_query: the text handed to the agent, as a list of parts
preprocess_query(u) ==
    IF u.text = "" THEN <<"Please provide a valid question about the hotel data.">>
    ELSE IF u.length < 3 THEN <<"Please provide a more detailed question.">>
    ELSE IF u.keyword THEN <<u.text, "Relevant Tools", "Tip">>
    ELSE <<u.text, "Available Analysis", "Start with mongodb_get_collections()">>

\* `word in error_msg`, on the messages above; lower() is applied where the
\* code applies it
Mentions(error_msg, word) ==
    <<error_msg, word>> \in
        { <<"tool_use_failed: bad arguments", "tool_use_failed">>,
          <<"tool_use_failed: bad arguments", "tool">>,
          <<"Model overloaded", "model">>,
          <<"Connection refused", "connection">>,
          <<"token limit exceeded", "token">>,
          <<"'name'", "name">> }

\* the messages a run of the agent can end with: with or without a content
\* attribute, with empty or non-empty content, without tool calls, with a
\* well-formed tool call or with one that has no name
Messages ==
    [has_content : BOOLEAN, content : {"", "42 orders"},
     tool_calls : { <<>>, <<[name |-> "mongodb_query"]>>, <<[id |-> "call_1"]>> }]

\* what agent.ainvoke does: it raises an exception (error is its str(e)),
\* or returns None, an empty dict, a dict without "messages", something
\* that is no container, or a dict with a list of no, one or two messages
Behaviours ==
    [kind : {"raises"},
     error : {"", "tool_use_failed: bad arguments", "Model overloaded",
              "Connection refused", "token limit exceeded", "boom"},
     shape : {"none"}, messages : {<<>>}]
    \cup [kind : {"returns"}, error : {""},
          shape : {"None", "empty dict", "no messages key", "int"},
          messages : {<<>>}]
    \cup [kind : {"returns"}, error : {""}, shape : {"dict"},
          messages : {<<>>} \cup {<<m>> : m \in Messages}
                     \cup {<<m, [has_content |-> TRUE, content |-> "42 orders",
                                 tool_calls |-> <<>>]>> : m \in Messages}]

\* the suggestion of the inner handler, lines 205-210
agent_error_suggestion(error_msg) ==
    IF Mentions(error_msg, "tool_use_failed")
    THEN "Tool call format issue. Try rephrasing your query more simply."
    ELSE IF Mentions(error_msg, "model")
    THEN "Model API issue. Check your GROQ_API_KEY and try again."
    ELSE "Try a simpler query or check system status."

\* the suggestion of the outer handler, lines 269-276
processing_error_suggestion(error_msg) ==
    IF Mentions(error_msg, "token")
    THEN "Try using smaller limits or more specific queries to avoid token limits."
    ELSE IF Mentions(error_msg, "connection")
    THEN "Check if the MCP server is running on localhost:8000."
    ELSE IF Mentions(error_msg, "tool")
    THEN "The tool call format may be incorrect. Check parameter names and types."
    ELSE "Try simplifying your query or using specific collection names."

\* the dict of the outer handler, lines 264-283
processing_error(error_msg) ==
    [raised |-> "none",
     success |-> FALSE,
     error |-> error_msg,
     suggestion |-> processing_error_suggestion(error_msg),
     response |-> <<"I encountered an error: ", error_msg, ". ",
                    processing_error_suggestion(error_msg)>>]

\* is_empty_response looking for the attribute only
is_empty_response_attribute_only(m) == ~m.has_content

\* not hasattr(final_message, 'content') or not final_message.content
is_empty_response(m) == ~m.has_content \/ m.content = ""

RECURSIVE count_tool_calls(_)
count_tool_calls(ms) ==
    IF Len(ms) = 0 THEN 0
    ELSE Len(ms[1].tool_calls) + count_tool_calls(Tail(ms))

\* the messages that carry tool calls
RECURSIVE with_tool_calls(_)
with_tool_calls(ms) ==
    IF Len(ms) = 0 THEN <<>>
    ELSE IF ms[1].tool_calls # <<>>
    THEN <<ms[1]>> \o with_tool_calls(Tail(ms))
    ELSE with_tool_calls(Tail(ms))

\* query(user_input) on an object whose self.agent is a, when agent.ainvoke
\* behaves as b: the exception raised or the dict returned
query(a, u, b) ==
    IF a = NoAgent THEN [raised |-> "RuntimeError"]
    ELSE IF b.kind = "raises"
    THEN [raised |-> "none",
          success |-> FALSE,
          error |-> b.error,
          suggestion |-> agent_error_suggestion(b.error),
          response |-> <<"I encountered an error: ", b.error, ". ",
                         agent_error_suggestion(b.error)>>,
          tool_calls |-> 0,
          message_count |-> 0,
          tools_used |-> <<>>]
    ELSE IF b.shape = "int"
    THEN processing_error("argument of type 'int' is not iterable")
    ELSE IF b.shape # "dict" \/ b.messages = <<>>
    THEN [raised |-> "none",
          success |-> FALSE,
          error |-> "Invalid agent response structure",
          suggestion |-> "Try restarting the system",
          response |-> <<"I encountered a system error. Please try again.">>,
          tool_calls |-> 0,
          message_count |-> 0,
          tools_used |-> <<>>]
    ELSE LET final_message == b.messages[Len(b.messages)]
             calling == with_tool_calls(b.messages)
         IN IF is_empty_response(final_message)
            THEN [raised |-> "none",
                  success |-> FALSE,
                  error |-> "Empty response from agent",
                  suggestion |-> "Try rephrasing your query",
                  response |-> <<"I couldn't generate a response. Please rephrase your question.">>,
                  tool_calls |-> 0,
                  message_count |-> Len(b.messages),
                  tools_used |-> <<>>]
            ELSE IF \E k \in 1..Len(calling) :
                        "name" \notin DOMAIN calling[k].tool_calls[1]
            THEN processing_error("'name'")
            ELSE [raised |-> "none",
                  success |-> TRUE,
                  response |-> <<final_message.content>>,
                  message_count |-> Len(b.messages),
                  tool_calls |-> count_tool_calls(b.messages),
                  original_query |-> u.text,
                  enhanced_query |-> preprocess_query(u),
                  tools_used |-> [k \in 1..Len(calling) |->
                                     calling[k].tool_calls[1].name]]

\* a MongoDBAnalyticsAgent after __init__
InitAgent ==
    /\ GeneratorIdle
    /\ NoLaunch
    /\ NoClientUse
    /\ NoAgentUse

\* initialize(): create_agent is reached and self.agent assigned, or an
\* exception before it leaves self.agent as it was and False is returned
Initialize ==
    /\ \E ok \in BOOLEAN :
          /\ agent' = IF ok THEN CompiledAgent ELSE agent
          /\ agentResult' = [raised |-> "none", returned |-> ok]
    /\ agentCall' = [method |-> "initialize"]
    /\ UNCHANGED <<generatorVars, insertVars, queryVars, launcherVars, clientVars>>

\* one call of query()
QueryAgent ==
    /\ \E u \in UserInputs, b \in Behaviours :
          /\ agentCall' = [method |-> "query", user_input |-> u, behaviour |-> b]
          /\ agentResult' = query(agent, u, b)
    /\ UNCHANGED agent
    /\ UNCHANGED <<generatorVars, insertVars, queryVars, launcherVars, clientVars>>

NextAgent ==
    \/ Initialize
    \/ QueryAgent

SpecAgent == InitAgent /\ [][NextAgent]_vars

---------------------------------------------------------------------------
(* Properties *)

\* generate_dataset has returned: `dataset` holds the six collections
Returned == pc \in {"returned", "written", "done"}

\* generate_dataset holds a built menu in its local `menu_items`
MenuBuilt == pc \in {"orders", "users", "repair"}

OrdersOfCustomer(ds, customer_id) ==
    {i \in 1..Len(ds.orders) : ds.orders[i].customer_id = customer_id}

RECURSIVE SumTotalAmount(_, _)
SumTotalAmount(os, idx) ==
    IF idx = {} THEN 0
    ELSE LET i == CHOOSE j \in idx : TRUE
         IN os[i].total_amount + SumTotalAmount(os, idx \ {i})

\* C1: in the returned dataset every customer's orders_count is the number of
\* orders carrying its customer_id and its total_spent is the sum of their
\* total_amount; a customer no order refers to has 0 and 0.
C1_AggregateConsistency ==
    Returned =>
        \A i \in 1..Len(dataset.customers) :
            LET c == dataset.customers[i]
                mine == OrdersOfCustomer(dataset, c.customer_id)
            IN /\ c.orders_count = Cardinality(mine)
               /\ c.total_spent = SumTotalAmount(dataset.orders, mine)
               /\ (mine = {} => c.orders_count = 0 /\ c.total_spent = 0)

\* a dataset in which one customer has two orders and another has none
C1_Witness ==
    /\ Returned
    /\ \E i, j \in 1..Len(dataset.customers) :
          /\ dataset.customers[i].orders_count = 2
          /\ dataset.customers[i].total_spent > 0
          /\ OrdersOfCustomer(dataset, dataset.customers[j].customer_id) = {}

\* C2: every order of the returned dataset has total_amount = subtotal -
\* discount + tax (to the cent) and a subtotal equal to the sum of the
\* total_price of its line items.
C2_OrderArithmetic ==
    Returned =>
        \A i \in 1..Len(dataset.orders) :
            LET o == dataset.orders[i]
            IN /\ o.total_amount = o.subtotal - o.discount + o.tax
               /\ o.subtotal = SumTotalPrice(o.items)

\* a returned order of several line items with a discount and a tax
C2_Witness ==
    /\ Returned
    /\ \E i \in 1..Len(dataset.orders) :
          /\ Len(dataset.orders[i].items) >= 2
          /\ dataset.orders[i].discount > 0
          /\ dataset.orders[i].tax > 0

\* C3: every line item of every returned order names the item_id of a record
\* of the returned menu_items.
C3_ReferentialIntegrity ==
    Returned =>
        \A i \in 1..Len(dataset.orders) :
            \A k \in 1..Len(dataset.orders[i].items) :
                \E m \in 1..Len(dataset.menu_items) :
                    dataset.menu_items[m].item_id
                        = dataset.orders[i].items[k].menu_item_id

\* a returned order with a line item that names a synthesized variant
C3_Witness ==
    /\ Returned
    /\ \E i \in 1..Len(dataset.orders) :
          \E k \in 1..Len(dataset.orders[i].items) :
              dataset.orders[i].items[k].menu_item_id[2] > CatalogSize

DeliveriesOfOrder(ds, order_id) ==
    {d \in 1..Len(ds.delivery_details) : ds.delivery_details[d].order_id = order_id}

\* C4: a delivery_details record exists for an order exactly when the order is
\* a delivery that is completed or pending; no order has two records and every
\* record belongs to an order of the dataset.
C4_DeliverySubset ==
    Returned =>
        /\ \A i \in 1..Len(dataset.orders) :
              LET o == dataset.orders[i]
                  recs == DeliveriesOfOrder(dataset, o.order_id)
              IN /\ (recs # {}) <=>
                        (o.order_type = "delivery"
                            /\ (o.status = "completed" \/ o.status = "pending"))
                 /\ Cardinality(recs) <= 1
        /\ \A d \in 1..Len(dataset.delivery_details) :
              \E i \in 1..Len(dataset.orders) :
                  dataset.orders[i].order_id = dataset.delivery_details[d].order_id

\* a dataset with a delivery order that has its record and a cancelled or
\* refunded delivery order that has none
C4_Witness ==
    /\ Returned
    /\ \E i, j \in 1..Len(dataset.orders) :
          /\ DeliveriesOfOrder(dataset, dataset.orders[i].order_id) # {}
          /\ dataset.orders[j].order_type = "delivery"
          /\ dataset.orders[j].status \in {"cancelled", "refunded"}
          /\ DeliveriesOfOrder(dataset, dataset.orders[j].order_id) = {}

\* C5: a second run of the command with the same seed and counts, whenever it
\* is started, leaves all six files with the content the first run gave them.
C5_SameFilesOnRerun ==
    (runs >= 2 /\ pc = "done") => files = prevFiles

\* C6 as claimed: the built menu has exactly the requested number of items.
C6_ExactlyRequested ==
    MenuBuilt => Len(menu_items) = MENU_ITEM_COUNT

\* C6 as amended: the built menu has the requested number of items when that
\* is at least the size of the catalog, and the 18 catalog items otherwise:
\* never fewer than requested, and more only to keep the whole catalog.
C6_RequestedOrCatalog ==
    /\ MenuBuilt =>
          /\ Len(menu_items) >= MENU_ITEM_COUNT
          /\ Len(menu_items) >= CatalogSize
          /\ Len(menu_items) = MENU_ITEM_COUNT \/ Len(menu_items) = CatalogSize
    /\ Returned =>
          /\ Len(dataset.menu_items) >= MENU_ITEM_COUNT
          /\ Len(dataset.menu_items) >= CatalogSize
          /\ Len(dataset.menu_items) = MENU_ITEM_COUNT
                \/ Len(dataset.menu_items) = CatalogSize

\* a menu extended by two variants to the 20 items asked for
C6_Witness ==
    /\ MenuBuilt
    /\ MENU_ITEM_COUNT = CatalogSize + 2
    /\ Len(menu_items) = CatalogSize + 2

\* C7: when at most 18 items are requested the menu is the catalog: its 18
\* entries in order, each with its own name and price, and no variant.
C7_CatalogKept ==
    (MenuBuilt /\ MENU_ITEM_COUNT <= CatalogSize) =>
        /\ Len(menu_items) = CatalogSize
        /\ \A i \in 1..Len(menu_items) :
              /\ menu_items[i].item_id = <<"menu", i>>
              /\ menu_items[i].name = <<MENU_CATALOG[i][1]>>
              /\ menu_items[i].price = MENU_CATALOG[i][3]

\* a menu built for a request of 8 items
C7_Witness ==
    /\ MenuBuilt
    /\ args.menu_items = 8
    /\ MENU_ITEM_COUNT = 8
    /\ Len(menu_items) = CatalogSize

\* the command line asks for no customer or for no menu item
Degenerate == args.customers <= 0 \/ args.menu_items <= 0

C9_ClampedCounts ==
    pc \notin {"main"} =>
        /\ ORDER_COUNT = (IF args.orders > 1 THEN args.orders ELSE 1)
        /\ CUSTOMER_COUNT = (IF args.customers > 1 THEN args.customers ELSE 1)
        /\ MENU_ITEM_COUNT = (IF args.menu_items > 8 THEN args.menu_items ELSE 8)
        /\ ORDER_COUNT >= 1 /\ CUSTOMER_COUNT >= 1 /\ MENU_ITEM_COUNT >= 8

\* the order loop running on counts raised from a negative and two zero values
C9_Witness ==
    /\ pc = "orders"
    /\ args.orders < 0
    /\ args.customers = 0
    /\ args.menu_items = 0
    /\ ORDER_COUNT = 1

\* C10: the returned dataset has exactly ORDER_COUNT orders, and the i-th
\* generated order is order number i: order_00001 first, no gap, no repeat.
C10_OrderCountAndIds ==
    Returned =>
        /\ Len(dataset.orders) = ORDER_COUNT
        /\ \A i \in 1..Len(dataset.orders) :
              dataset.orders[i].order_id = <<"order", i>>

\* a returned dataset of two orders
C10_Witness ==
    /\ Returned
    /\ ORDER_COUNT = 2
    /\ Len(dataset.orders) = 2

\* no two records of the sequence recs carry the same value in field key
UniqueBy(recs, key) ==
    \A i, j \in 1..Len(recs) : recs[i][key] = recs[j][key] => i = j

\* C16: within the customers, the menu_items, the users and the orders of a
\* returned dataset no two records share an identifier; the synthesized
\* variants have identifiers distinct from each other and from the catalog's.
C16_UniqueIdentifiers ==
    Returned =>
        /\ UniqueBy(dataset.customers, "customer_id")
        /\ UniqueBy(dataset.menu_items, "item_id")
        /\ UniqueBy(dataset.users, "user_id")
        /\ UniqueBy(dataset.orders, "order_id")
        /\ \A v \in (CatalogSize + 1)..Len(dataset.menu_items) :
              \A m \in 1..Len(dataset.menu_items) :
                  m # v => dataset.menu_items[m].item_id
                               # dataset.menu_items[v].item_id

\* a returned dataset of two customers, two orders and two variants
C16_Witness ==
    /\ Returned
    /\ Len(dataset.customers) = 2
    /\ Len(dataset.orders) = 2
    /\ Len(dataset.menu_items) = CatalogSize + 2
    /\ Len(dataset.users) = USER_COUNT

\* the orders of dataset ds that delivery record rec belongs to
ParentOrders(ds, rec) ==
    {i \in 1..Len(ds.orders) : ds.orders[i].order_id = rec.order_id}

\* C19: for every delivery_details record of a returned dataset, pickup_time
\* is 15 to 25 minutes after the creation time of its order and delivery_time
\* is 12 to 28 minutes after pickup_time, so creation < pickup < delivery.
C19_DeliveryTimes ==
    Returned =>
        \A d \in 1..Len(dataset.delivery_details) :
            LET rec == dataset.delivery_details[d]
            IN /\ ParentOrders(dataset, rec) # {}
               /\ \A i \in ParentOrders(dataset, rec) :
                     LET created == dataset.orders[i].created_at
                     IN /\ rec.pickup_time - created >= 15 * Minute
                        /\ rec.pickup_time - created <= 25 * Minute
                        /\ rec.delivery_time - rec.pickup_time >= 12 * Minute
                        /\ rec.delivery_time - rec.pickup_time <= 28 * Minute
                        /\ created < rec.pickup_time
                        /\ rec.pickup_time < rec.delivery_time

\* a returned dataset with two delivery records whose pickup delays differ
C19_Witness ==
    /\ Returned
    /\ \E d, e \in 1..Len(dataset.delivery_details) :
          \E i \in ParentOrders(dataset, dataset.delivery_details[d]) :
             \E j \in ParentOrders(dataset, dataset.delivery_details[e]) :
                dataset.delivery_details[d].pickup_time - dataset.orders[i].created_at
                    # dataset.delivery_details[e].pickup_time - dataset.orders[j].created_at

\* the records of dataset ds's menu_items with identifier item_id
MenuItemsWithId(ds, item_id) ==
    {m \in 1..Len(ds.menu_items) : ds.menu_items[m].item_id = item_id}

\* C20: every order of a returned dataset has 1 to 4 line items that name
\* pairwise distinct menu items; each line item has a quantity of 1 to 3, the
\* price of the menu item it names as unit_price, and quantity times
\* unit_price (a whole number of cents) as total_price.
C20_LineItems ==
    Returned =>
        \A i \in 1..Len(dataset.orders) :
            LET items == dataset.orders[i].items
            IN /\ Len(items) >= 1
               /\ Len(items) <= 4
               /\ \A k, l \in 1..Len(items) :
                     items[k].menu_item_id = items[l].menu_item_id => k = l
               /\ \A k \in 1..Len(items) :
                     /\ items[k].quantity \in 1..3
                     /\ MenuItemsWithId(dataset, items[k].menu_item_id) # {}
                     /\ \A m \in MenuItemsWithId(dataset, items[k].menu_item_id) :
                           items[k].unit_price = dataset.menu_items[m].price
                     /\ items[k].total_price = items[k].quantity * items[k].unit_price

\* a returned dataset with an order of four line items, one of them a variant
\* taken three times, and an order of a single line item
C20_Witness ==
    /\ Returned
    /\ \E i, j \in 1..Len(dataset.orders) :
          /\ Len(dataset.orders[i].items) = 4
          /\ Len(dataset.orders[j].items) = 1
          /\ \E k \in 1..4 : dataset.orders[i].items[k].quantity = 3

\* every order of ds names a customer of ds, every line item a menu item of
\* ds, every delivery record and every audit entry an order of ds
Consistent(ds) ==
    /\ \A i \in 1..Len(ds.orders) :
          /\ \E c \in 1..Len(ds.customers) :
                ds.customers[c].customer_id = ds.orders[i].customer_id
          /\ \A k \in 1..Len(ds.orders[i].items) :
                MenuItemsWithId(ds, ds.orders[i].items[k].menu_item_id) # {}
    /\ \A d \in 1..Len(ds.delivery_details) :
          ParentOrders(ds, ds.delivery_details[d]) # {}
    /\ \A a \in 1..Len(ds.audit_logs) :
          \E i \in 1..Len(ds.orders) :
              ds.orders[i].order_id = ds.audit_logs[a].resource_id

\* generate_dataset is running
Generating == pc \in {"customers", "menu", "orders", "users", "repair"}

\* the number of steps generate_dataset has left: the customers, the menu,
\* one per order still to generate, the finalize loop, the users, the repair
Remaining ==
    CASE pc = "customers" -> ORDER_COUNT + 5
      [] pc = "menu" -> ORDER_COUNT + 4
      [] pc = "orders" -> (ORDER_COUNT - Len(orders)) + 3
      [] pc = "users" -> 2
      [] pc = "repair" -> 1
      [] OTHER -> 0

\* generate_dataset has returned a consistent dataset of ORDER_COUNT orders,
\* one audit entry per iteration of the order loop, and a menu as long as the
\* catalog or as requested
ReturnedConsistent ==
    /\ pc = "returned"
    /\ error = NoError
    /\ Len(dataset.orders) = ORDER_COUNT
    /\ Len(dataset.audit_logs) = ORDER_COUNT
    /\ Len(dataset.menu_items) = Max(CatalogSize, MENU_ITEM_COUNT)
    /\ Consistent(dataset)

\* C17: generation with an accepted configuration (orders >= 1, customers
\* >= 1, requested menu items >= 8) terminates. While it runs the counts are
\* accepted, no exception has ended it, the menu loop has stopped at the
\* requested size (or at the catalog) and the order loop has made at most
\* ORDER_COUNT iterations; every step lowers by one the number of steps
\* left, ORDER_COUNT + 5 on entry; and with no step left it has returned a
\* referentially consistent dataset of exactly ORDER_COUNT orders.
C17_Terminates ==
    /\ [](Generating =>
             /\ ORDER_COUNT >= 1 /\ CUSTOMER_COUNT >= 1 /\ MENU_ITEM_COUNT >= 8
             /\ error = NoError
             /\ Remaining > 0
             /\ pc = "orders" =>
                   /\ Len(orders) <= ORDER_COUNT
                   /\ Len(customers) = CUSTOMER_COUNT
                   /\ Len(menu_items) = Max(CatalogSize, MENU_ITEM_COUNT))
    /\ [](pc # "failed")
    /\ [](pc = "returned" => ReturnedConsistent)
    /\ [][Generating => Remaining' = Remaining - 1]_vars

\* generation returned from a run with two orders, two customers and a menu
\* extended to twenty items
C17_Witness ==
    /\ ReturnedConsistent
    /\ args.orders = 2
    /\ args.customers = 2
    /\ args.menu_items = CatalogSize + 2

RECURSIVE SumPoints(_, _)
SumPoints(os, idx) ==
    IF idx = {} THEN 0
    ELSE LET i == CHOOSE j \in idx : TRUE
         IN (os[i].total_amount \div 1000) + SumPoints(os, idx \ {i})

\* the calendar day of the latest of the orders idx, None when there is none
LastOrderDate(os, idx) ==
    IF idx = {} THEN None
    ELSE LET i == CHOOSE j \in idx : \A k \in idx : os[k].created_at <= os[j].created_at
         IN strftime_date(os[i].created_at)

\* C15: at every call of generate_dataset in a process the running
\* statistics start empty, and the total_spent, orders_count, loyalty_points
\* and last_order_date of every customer of the dataset a call returns are
\* those of the orders of that dataset alone.
C15_FreshAggregatesPerCall ==
    /\ (pc = "orders" /\ Len(orders) = 0) => customer_stats = NoStats
    /\ pc = "returned" =>
          \A i \in 1..Len(dataset.customers) :
              LET c == dataset.customers[i]
                  mine == OrdersOfCustomer(dataset, c.customer_id)
              IN /\ c.orders_count = Cardinality(mine)
                 /\ c.total_spent = SumTotalAmount(dataset.orders, mine)
                 /\ c.loyalty_points = SumPoints(dataset.orders, mine)
                 /\ c.last_order_date = LastOrderDate(dataset.orders, mine)

\* the second call of a process has returned a dataset in which a customer
\* has orders
C15_Witness ==
    /\ calls = 2
    /\ pc = "returned"
    /\ \E i \in 1..Len(dataset.customers) :
          /\ dataset.customers[i].orders_count >= 1
          /\ dataset.customers[i].total_spent > 0
          /\ dataset.customers[i].last_order_date # None

\* the six collection names
SixCollections == {COLLECTIONS[k] : k \in 1..Len(COLLECTIONS)}

\* main() is in insert_into_mongo past its checks, or back from it
InUpsert == pc \in {"connect", "drop", "insert_many", "close", "inserted"}

UpsertErrors ==
    {RuntimeErrorPymongo, RuntimeErrorUri, InvalidURI, DropFailed, InsertFailed}

\* insert_into_mongo has raised
UpsertFailed == pc = "failed" /\ error \in UpsertErrors

\* each of the six files exists and holds the records of its collection
SixFilesWritten ==
    /\ DOMAIN files = SixCollections
    /\ DOMAIN dataset = SixCollections
    /\ \A c \in SixCollections : files[c] = dataset[c]

\* C11: in a run with --insert, whenever insert_into_mongo has got past its
\* checks, a client exists, an operation on the store has been attempted or
\* insert_into_mongo has raised, the six JSON files are already written with
\* the records of the dataset: no outcome of the upsert keeps a file from
\* being written.
C11_FilesBeforeStore ==
    (args.insert /\ (InUpsert \/ client # "none" \/ storeOps # <<>> \/ UpsertFailed))
        => SixFilesWritten

\* the first operation on the store has failed, and the six files are there
C11_Witness ==
    /\ args.insert
    /\ UpsertFailed
    /\ error = DropFailed
    /\ storeOps = << <<"drop", "customers">> >>
    /\ SixFilesWritten
    /\ files["orders"] # <<>>

\* C12: no step of insert_into_mongo, whether it succeeds or fails at the
\* client, at a drop or at an insert, changes the dataset in memory or a JSON
\* file; when it has failed the error is one that insert_into_mongo raises
\* and the six files hold the dataset as write_json_files left them.
C12_UpsertFailureLeavesData ==
    /\ [][(args.insert /\ pc \in {"written", "connect", "drop", "insert_many", "close"})
            => (dataset' = dataset /\ files' = files)]_vars
    /\ []((args.insert /\ pc = "failed") => (UpsertFailed /\ SixFilesWritten))

\* the insert of the orders has failed after the customers and the menu
\* items were replaced in the store
C12_Witness ==
    /\ UpsertFailed
    /\ error = InsertFailed
    /\ COLLECTIONS[cursor] = "orders"
    /\ store["customers"] = dataset["customers"]
    /\ store["menu_items"] = dataset["menu_items"]
    /\ Len(store["orders"]) < Len(dataset["orders"])
    /\ SixFilesWritten

\* C13: once insert_into_mongo has completed, each of the six collections of
\* the store holds exactly the generated records of that name, in order, and
\* none of the documents it held before; a collection generated empty is
\* empty in the store; the collection the generator does not know is as it
\* was; and at any time an insert into a collection comes after its drop.
C13_StoreReplaced ==
    /\ (args.insert /\ pc \in {"inserted", "done"}) =>
          /\ \A c \in SixCollections :
                /\ store[c] = dataset[c]
                /\ \A d \in 1..Len(store[c]) :
                      \A o \in 1..Len(OldDocuments) : store[c][d] # OldDocuments[o]
                /\ dataset[c] = <<>> => store[c] = <<>>
          /\ store[OTHER_COLLECTION] \in {<<>>, OldDocuments}
    /\ \A j \in 1..Len(storeOps) :
          storeOps[j][1] = "insert_many" =>
              /\ j > 1
              /\ storeOps[j - 1] = <<"drop", storeOps[j][2]>>

\* a completed upsert into a store that held documents, of a dataset without
\* delivery records
C13_Witness ==
    /\ args.insert
    /\ pc = "inserted"
    /\ store[OTHER_COLLECTION] = OldDocuments
    /\ dataset["delivery_details"] = <<>>
    /\ store["delivery_details"] = <<>>
    /\ Len(store["orders"]) >= 1
    /\ store["orders"] = dataset["orders"]

\* --insert is given and neither MONGODB_URI nor MONGO_URI is set
NoConnectionString ==
    args.insert /\ env.MONGODB_URI = Unset /\ env.MONGO_URI = Unset

\* C14 as claimed: with --insert and no connection string insert_into_mongo
\* fails with the error that names the missing setting, with no client
\* created and no operation on the store attempted.
C14_NamesMissingSetting ==
    NoConnectionString =>
        /\ ~InUpsert /\ pc # "done"
        /\ client = "none"
        /\ storeOps = <<>>
        /\ pc = "failed" => error = RuntimeErrorUri

\* C14 as amended: with --insert and no connection string insert_into_mongo
\* raises before a client is created and before any operation on the store:
\* the RuntimeError that names MONGODB_URI (or MONGO_URI) when pymongo can be
\* imported, and the RuntimeError that names pymongo when it cannot.
C14_FailsBeforeClient ==
    NoConnectionString =>
        /\ ~InUpsert /\ pc # "done"
        /\ client = "none"
        /\ storeOps = <<>>
        /\ store \in {EmptyStore, OldStore}
        /\ pc = "failed" =>
              error = (IF pymongo THEN RuntimeErrorUri ELSE RuntimeErrorPymongo)

\* the error that names the connection string, raised with pymongo installed
\* and a store that holds documents
C14_Witness ==
    /\ NoConnectionString
    /\ pymongo
    /\ pc = "failed"
    /\ error = RuntimeErrorUri
    /\ store = OldStore
    /\ SixFilesWritten

\* C18 as claimed: a successful call of mongodb_query returns at most limit
\* documents and, whatever limit is passed, never more than 500.
C18_AtMostLimitAndMaximum ==
    response.success =>
        /\ Len(response.data) <= request.limit.value
        /\ Len(response.data) <= QUERY_LIMIT_MAX
        /\ response.count = Len(response.data)

\* what does hold: a successful call returns at most limit documents
C18_AtMostLimit ==
    response.success =>
        /\ Len(response.data) <= request.limit.value
        /\ response.count = Len(response.data)

\* C22: every customer of the returned dataset has loyalty_points equal to
\* the sum over its orders of floor(total_amount / 10) and a last_order_date
\* that is the calendar date of the latest creation time among its orders;
\* last_order_date is None exactly when no order refers to the customer.
C22_LoyaltyAndLastOrder ==
    Returned =>
        \A i \in 1..Len(dataset.customers) :
            LET c == dataset.customers[i]
                mine == OrdersOfCustomer(dataset, c.customer_id)
            IN /\ c.loyalty_points = SumPoints(dataset.orders, mine)
               /\ c.last_order_date = LastOrderDate(dataset.orders, mine)
               /\ (c.last_order_date = None) <=> (mine = {})

\* a dataset in which one customer has two orders of different days, the
\* later one generated first, and points, and another customer has no order
C22_Witness ==
    /\ Returned
    /\ Len(dataset.orders) = 2
    /\ \E i, j \in 1..Len(dataset.customers) :
          /\ OrdersOfCustomer(dataset, dataset.customers[i].customer_id) = {1, 2}
          /\ strftime_date(dataset.orders[1].created_at)
                 > strftime_date(dataset.orders[2].created_at)
          /\ dataset.customers[i].loyalty_points > 0
          /\ dataset.customers[i].last_order_date
                 = strftime_date(dataset.orders[1].created_at)
          /\ dataset.customers[j].last_order_date = None

AuditsOfOrder(ds, order_id) ==
    {k \in 1..Len(ds.audit_logs) : ds.audit_logs[k].resource_id = order_id}

\* C23: audit_logs holds exactly one entry per order: as many entries as
\* orders, each order of whatever type and status is the resource_id of
\* exactly one entry, and that entry's timestamp is exactly 5 minutes after
\* the order's creation time.
C23_OneAuditPerOrder ==
    /\ pc = "orders" => Len(audit_logs) = Len(orders)
    /\ Returned =>
          /\ Len(dataset.audit_logs) = Len(dataset.orders)
          /\ \A i \in 1..Len(dataset.orders) :
                LET o == dataset.orders[i]
                    mine == AuditsOfOrder(dataset, o.order_id)
                IN /\ Cardinality(mine) = 1
                   /\ \A k \in mine :
                         dataset.audit_logs[k].timestamp
                             = o.created_at + timedelta(0, 0, 5)

\* a returned dataset of two audited orders, one of them neither a delivery
\* nor completed
C23_Witness ==
    /\ Returned
    /\ Len(dataset.orders) = 2
    /\ Len(dataset.audit_logs) = 2
    /\ dataset.audit_logs[1].resource_id # dataset.audit_logs[2].resource_id
    /\ \E i \in 1..2 :
          /\ dataset.orders[i].order_type # "delivery"
          /\ dataset.orders[i].status # "completed"
          /\ AuditsOfOrder(dataset, dataset.orders[i].order_id) # {}

\* C24 as stated: an order has a delivery address if and only if its type
\* is "delivery", and the record of an order of another type has no
\* delivery_address field at all.
C24_AbsentUnlessDelivery ==
    Returned =>
        \A i \in 1..Len(dataset.orders) :
            LET o == dataset.orders[i]
            IN IF o.order_type = "delivery"
               THEN "delivery_address" \in DOMAIN o /\ o.delivery_address # None
               ELSE "delivery_address" \notin DOMAIN o

\* C24, amended: every order record has the delivery_address field; its
\* value is an address if and only if the order type is "delivery", and
\* None for every other type, in the dataset and in orders.json alike.
C24_NoneUnlessDelivery ==
    /\ Returned =>
          \A i \in 1..Len(dataset.orders) :
              LET o == dataset.orders[i]
              IN /\ "delivery_address" \in DOMAIN o
                 /\ (o.delivery_address # None) <=> (o.order_type = "delivery")
    /\ (pc \in {"written", "done"} /\ "orders" \in DOMAIN files) =>
          \A i \in 1..Len(files["orders"]) :
              LET o == files["orders"][i]
              IN /\ "delivery_address" \in DOMAIN o
                 /\ (o.delivery_address = None) <=> (o.order_type # "delivery")

\* orders.json holds a delivery order with an address and an order of
\* another type whose delivery_address is None
C24_Witness ==
    /\ pc = "done"
    /\ "orders" \in DOMAIN files
    /\ \E i, j \in 1..Len(files["orders"]) :
          /\ files["orders"][i].order_type = "delivery"
          /\ files["orders"][i].delivery_address >= 10
          /\ files["orders"][j].order_type # "delivery"
          /\ files["orders"][j].delivery_address = None

\* C21: in every order the discount is 0, 5% or 10% of the subtotal rounded
\* to the cent and the tax is 8% of (subtotal - discount) rounded to the
\* cent; 0 <= discount <= subtotal, and total_amount is strictly positive.
C21_DiscountTaxAndPositiveTotal ==
    Returned =>
        \A i \in 1..Len(dataset.orders) :
            LET o == dataset.orders[i]
            IN /\ \E k \in 1..Len(DISCOUNT_RATES), up \in BOOLEAN :
                      o.discount = Round2(o.subtotal * DISCOUNT_RATES[k], 100, up)
               /\ o.tax = Round2((o.subtotal - o.discount) * 8, 100, FALSE)
               /\ 0 <= o.discount
               /\ o.discount <= o.subtotal
               /\ o.total_amount > 0

\* the two formulas of C21 alone, without what the claim concludes from them
C21_DiscountAndTaxRates ==
    Returned =>
        \A i \in 1..Len(dataset.orders) :
            LET o == dataset.orders[i]
            IN /\ \E k \in 1..Len(DISCOUNT_RATES), up \in BOOLEAN :
                      o.discount = Round2(o.subtotal * DISCOUNT_RATES[k], 100, up)
               /\ o.tax = Round2((o.subtotal - o.discount) * 8, 100, FALSE)

\* C21 holds as long as every menu item has a positive price
C21_PositiveWhilePricesPositive ==
    (Returned /\ \A m \in 1..Len(dataset.menu_items) : dataset.menu_items[m].price > 0)
        => C21_DiscountTaxAndPositiveTotal

RECURSIVE SumOrdersCount(_)
SumOrdersCount(cs) ==
    IF Len(cs) = 0 THEN 0 ELSE cs[1].orders_count + SumOrdersCount(Tail(cs))

RECURSIVE SumTotalSpent(_)
SumTotalSpent(cs) ==
    IF Len(cs) = 0 THEN 0 ELSE cs[1].total_spent + SumTotalSpent(Tail(cs))

\* C26: every order's customer_id is the identifier of a returned customer;
\* the orders_count of all customers add up to the number of orders and
\* their total_spent to the sum of the total_amount of all orders.
C26_EveryOrderCounted ==
    Returned =>
        /\ \A i \in 1..Len(dataset.orders) :
              \E j \in 1..Len(dataset.customers) :
                  dataset.customers[j].customer_id = dataset.orders[i].customer_id
        /\ SumOrdersCount(dataset.customers) = Len(dataset.orders)
        /\ SumTotalSpent(dataset.customers)
               = SumTotalAmount(dataset.orders, 1..Len(dataset.orders))

\* a returned dataset whose two orders belong to two different customers
C26_Witness ==
    /\ Returned
    /\ Len(dataset.customers) = 2
    /\ Len(dataset.orders) = 2
    /\ dataset.orders[1].customer_id # dataset.orders[2].customer_id
    /\ dataset.customers[1].orders_count = 1
    /\ dataset.customers[2].orders_count = 1
    /\ SumTotalSpent(dataset.customers) > 0

StaffIds == {Id("staff", i) : i \in 1..USER_COUNT}

UserIds(ds) == {ds.users[i].user_id : i \in 1..Len(ds.users)}

\* C27: every audit entry's user_id is the user_id of a returned user; the
\* identifiers of the users are staff_001 .. staff_<USER_COUNT>, the set the
\* audit entries draw from.
C27_AuditUsersExist ==
    /\ pc = "orders" =>
          \A k \in 1..Len(audit_logs) : audit_logs[k].user_id \in StaffIds
    /\ Returned =>
          /\ UserIds(dataset) = StaffIds
          /\ Len(dataset.users) = USER_COUNT
          /\ \A k \in 1..Len(dataset.audit_logs) :
                dataset.audit_logs[k].user_id \in UserIds(dataset)

\* a returned dataset whose two audit entries name two different users
C27_Witness ==
    /\ Returned
    /\ Len(dataset.audit_logs) = 2
    /\ dataset.audit_logs[1].user_id # dataset.audit_logs[2].user_id
    /\ \A k \in 1..2 :
          \E u \in 1..Len(dataset.users) :
              dataset.users[u].user_id = dataset.audit_logs[k].user_id

\* the position of a collection in the dataset
CollectionIndex(c) == CHOOSE k \in 1..Len(COLLECTIONS) : COLLECTIONS[k] = c

\* the operations on the store so far took the collections in the order of
\* the dataset, none left out, each dropped once and written at most once,
\* after its drop
InDatasetOrder(ops) ==
    /\ \A p \in 1..Len(ops) :
          /\ ops[p][2] \in SixCollections
          /\ ops[p][1] = "insert_many" =>
                /\ p > 1
                /\ ops[p - 1] = <<"drop", ops[p][2]>>
          /\ ops[p][1] = "drop" =>
                CollectionIndex(ops[p][2])
                    = 1 + Cardinality({q \in 1..(p - 1) : ops[q][1] = "drop"})
    /\ \A p, q \in 1..Len(ops) : p # q => ops[p] # ops[q]

\* C28: insert_into_mongo takes the collections in the order customers,
\* menu_items, orders, delivery_details, users, audit_logs and tries each
\* operation once; when the drop or the insert of one collection fails, every
\* collection before it holds exactly the generated records and every
\* collection after it has seen no operation and holds the documents it held
\* before the call.
C28_FailureSplitsTheStore ==
    /\ InDatasetOrder(storeOps)
    /\ (InUpsert /\ cursor >= 1) =>
          \A k \in 1..(cursor - 1) : store[COLLECTIONS[k]] = dataset[COLLECTIONS[k]]
    /\ (UpsertFailed /\ error \in {DropFailed, InsertFailed}) =>
          /\ storeOps # <<>>
          /\ storeOps[Len(storeOps)][2] = COLLECTIONS[cursor]
          /\ \A k \in 1..Len(COLLECTIONS) :
                LET c == COLLECTIONS[k]
                IN /\ k < cursor => store[c] = dataset[c]
                   /\ k > cursor =>
                         /\ store[c] = store[OTHER_COLLECTION]
                         /\ \A p \in 1..Len(storeOps) : storeOps[p][2] # c

\* the insert of the third collection failed on a store that held documents:
\* the first two collections hold the generated records, the last three the
\* old documents
C28_Witness ==
    /\ UpsertFailed
    /\ error = InsertFailed
    /\ cursor = 3
    /\ store["customers"] = dataset["customers"]
    /\ store["menu_items"] = dataset["menu_items"]
    /\ store["customers"] # OldDocuments
    /\ store["delivery_details"] = OldDocuments
    /\ store["users"] = OldDocuments
    /\ store["audit_logs"] = OldDocuments
    /\ storeOps = << <<"drop", "customers">>, <<"insert_many", "customers">>,
                     <<"drop", "menu_items">>, <<"insert_many", "menu_items">>,
                     <<"drop", "orders">>, <<"insert_many", "orders">> >>

\* the position of a call in the launcher's log, 0 when it was not made
LogPosition(call) ==
    IF \E p \in 1..Len(launchLog) : launchLog[p] = call
    THEN CHOOSE p \in 1..Len(launchLog) : launchLog[p] = call
    ELSE 0

Children == {"mcp", "api"}

\* C25: the MCP server is started before the FastAPI server; an interrupt of
\* the running system ends the launcher with both children terminated; and
\* no exit of the launcher leaves a started child without a terminate call.
C25_StartOrderAndCleanup ==
    /\ LogPosition(<<"Popen", "api">>) > 0 =>
          /\ LogPosition(<<"Popen", "mcp">>) > 0
          /\ LogPosition(<<"Popen", "mcp">>) < LogPosition(<<"Popen", "api">>)
    /\ launcher = "exited" =>
          \A c \in Children :
              LogPosition(<<"Popen", c>>) > 0 =>
                  LogPosition(<<"terminate", c>>) > LogPosition(<<"Popen", c>>)

\* the first sentence of C25 alone: the MCP server is started first
C25_McpBeforeApi ==
    /\ api_process # "unbound" => mcp_process # "unbound"
    /\ LogPosition(<<"Popen", "api">>) > 0 =>
          /\ LogPosition(<<"Popen", "mcp">>) > 0
          /\ LogPosition(<<"Popen", "mcp">>) < LogPosition(<<"Popen", "api">>)
    /\ launcher \in {"sleep_3", "running"} =>
          launchLog = << <<"Popen", "mcp">>, <<"Popen", "api">> >>

\* C25 where it holds: when KeyboardInterrupt is raised inside the handler
\* of the keep-running loop, both children are terminated before main()
\* returns
C25_TerminatedWhenCaught ==
    exit_status = "returned" =>
        /\ launcher = "exited"
        /\ launchLog = << <<"Popen", "mcp">>, <<"Popen", "api">>,
                          <<"terminate", "mcp">>, <<"terminate", "api">> >>

\* C29: a database handle held in _db belongs to the connection held in
\* _client; after disconnect() both are None; after a connect() that
\* returned False no database handle is held; the db property returns a
\* database of a pinged connection or raises ConnectionError, never None.
C29_HandleOfCurrentClient ==
    /\ _db # NoDatabase => (_client # None /\ _db.client = _client)
    /\ lastCall.call = "disconnect" => (_client = None /\ _db = NoDatabase)
    /\ (lastCall.call = "connect" /\ lastCall.value = "False") => _db = NoDatabase
    /\ lastCall.call = "db" =>
          /\ lastCall.value \in {"Database", "ConnectionError"}
          /\ lastCall.value = "Database" =>
                connections[lastCall.handle.client].pinged

\* the parts of C29 about disconnect() and the db property alone
C29_DisconnectAndDbProperty ==
    /\ _client = None => _db = NoDatabase
    /\ lastCall.call = "disconnect" => (_client = None /\ _db = NoDatabase)
    /\ lastCall.call = "db" =>
          /\ lastCall.value \in {"Database", "ConnectionError"}
          /\ lastCall.value = "Database" =>
                /\ lastCall.handle = _db
                /\ connections[lastCall.handle.client].pinged
                /\ ~connections[lastCall.handle.client].closed

\* the text of a response, given as its parts, is not empty
NonEmptyText(parts) == \E k \in 1..Len(parts) : parts[k] # ""

QueryCalled == agentCall.method = "query"

=============================================================================
